---- MODULE Spec2Model ----
(***************************************************************************)
(* A model of the incremental ingestion pipeline of document-review-rag:   *)
(* the FileTracker (src/src/utils/file_tracker.py), the file system and    *)
(* the persisted tracking document it works on.                            *)
(***************************************************************************)
EXTENDS Integers, Sequences, FiniteSets, TLC

(***************************************************************************)
(* Bounds of the model.                                                    *)
(***************************************************************************)
\* modification times a file can carry: 1..MaxMtime
MaxMtime == 2

\* chunk counts given to mark_processed: 1..MaxChunks
MaxChunks == 2

\* times of processing: 1..MaxNow
MaxNow == 2

\* texts given to the chunker: up to MaxLen characters
MaxLen == 5

\* chunk sizes 2..MaxSize and overlaps 0..MaxOverlap of the chunkers made
MaxSize == 3
MaxOverlap == 3

\* runs of the driver, one after the other: up to MaxRuns
MaxRuns == 2

\* writes to the files of the raw directory: up to MaxWrites
MaxWrites == 2

\* f.read(4096) in _get_file_hash
BlockSize == 4096

(***************************************************************************)
(* Files, paths and contents.                                              *)
(***************************************************************************)
\* A filename is <<stem, extension>>; a path is a directory and a filename.
FileA == <<"a", ".txt">>
FileB == <<"b", ".pdf">>
FileC == <<"c", ".md">>

RawA == [dir |-> "raw", name |-> FileA]
AltA == [dir |-> "alt", name |-> FileA]
RawB == [dir |-> "raw", name |-> FileB]
RawC == [dir |-> "raw", name |-> FileC]

AllPaths == {RawA, AltA, RawB, RawC}

\* the paths the tracker life-cycle specification works on
Paths == {RawA, AltA, RawB}

\* file contents: byte strings; two of one size, one of another
Contents == {<<0>>, <<1>>, <<0, 0>>}

Mtimes == 1..MaxMtime

NoFile == [exists |-> FALSE]

\* os.path.basename(file_path)
Basename(p) == p.name

\* os.path.splitext(filename)[1]
SplitExt(filename) == filename[2]

\* datetime.fromtimestamp(t).isoformat() / datetime.now().isoformat()
IsoFormat(t) == <<"iso", t>>

(***************************************************************************)
(* The Python dict self.processed_files: a sequence of key/value pairs in  *)
(* insertion order.                                                        *)
(***************************************************************************)
EmptyDict == <<>>

DictKeys(d) == {d[i].k : i \in DOMAIN d}

\* filename in self.processed_files
DictHas(d, key) == key \in DictKeys(d)

\* self.processed_files[filename]
DictGet(d, key) == d[CHOOSE i \in DOMAIN d : d[i].k = key].v

\* self.processed_files[filename] = value: an existing key keeps its place,
\* a new key goes to the end
DictPut(d, key, value) ==
    IF DictHas(d, key)
    THEN [i \in DOMAIN d |-> IF d[i].k = key THEN [k |-> key, v |-> value] ELSE d[i]]
    ELSE Append(d, [k |-> key, v |-> value])

DictKeepOthers(e, key) == e.k # key

\* del self.processed_files[filename]
DictDel(d, key) == SelectSeq(d, LAMBDA e : DictKeepOthers(e, key))

(***************************************************************************)
(* The persisted tracking document.                                        *)
(***************************************************************************)
NoDoc == [kind |-> "missing"]
\* text that is no JSON value (a truncated or garbled document)
BadJson == [kind |-> "badjson"]
\* bytes that are no UTF-8 text
BadUtf8 == [kind |-> "badutf8"]

\* one member of the JSON object: the filename and the record's members in the
\* order mark_processed writes them
JsonMember(e) ==
    <<e.k, <<<<"size", e.v.size>>,
             <<"modified_time", e.v.modified_time>>,
             <<"modified_date", e.v.modified_date>>,
             <<"processed_date", e.v.processed_date>>,
             <<"chunks_count", e.v.chunks_count>>,
             <<"content_hash", e.v.content_hash>>>>>>

\* json.dump(self.processed_files, f, ...)
JsonDump(d) == [kind |-> "json", members |-> [i \in DOMAIN d |-> JsonMember(d[i])]]

JsonField(obj, field) == obj[CHOOSE i \in DOMAIN obj : obj[i][1] = field][2]

JsonRecord(obj) ==
    [size           |-> JsonField(obj, "size"),
     modified_time  |-> JsonField(obj, "modified_time"),
     modified_date  |-> JsonField(obj, "modified_date"),
     processed_date |-> JsonField(obj, "processed_date"),
     chunks_count   |-> JsonField(obj, "chunks_count"),
     content_hash   |-> JsonField(obj, "content_hash")]

\* json.load(f) of a document json.dump wrote
JsonLoad(doc) == [i \in DOMAIN doc.members |->
                     [k |-> doc.members[i][1], v |-> JsonRecord(doc.members[i][2])]]

(***************************************************************************)
(* FileTracker: the pure part of each method, as the code computes it.     *)
(***************************************************************************)
Return(value) == [out |-> "return", val |-> value]

\* FileTracker._get_file_info: os.stat raises OSError for a missing file
GetFileInfo(f, p) ==
    IF ~f[p].exists
    THEN [ok |-> FALSE]
    ELSE [ok            |-> TRUE,
          size          |-> Len(f[p].bytes),
          modified_time |-> f[p].mtime,
          modified_date |-> IsoFormat(f[p].mtime)]

\* sha256_hash.update(byte_block): the digest state after one more block
\* (an injective fold over the bytes stands for SHA-256)
RECURSIVE ShaUpdate(_, _)
ShaUpdate(h, block) ==
    IF block = <<>> THEN h ELSE ShaUpdate(3 * h + Head(block) + 1, Tail(block))

\* for byte_block in iter(lambda: f.read(4096), b""): ...
RECURSIVE ReadBlocks(_, _)
ReadBlocks(h, rest) ==
    IF rest = <<>>
    THEN h
    ELSE LET n == IF Len(rest) < BlockSize THEN Len(rest) ELSE BlockSize
         IN  ReadBlocks(ShaUpdate(h, SubSeq(rest, 1, n)), SubSeq(rest, n + 1, Len(rest)))

\* FileTracker._get_file_hash: open/read raise OSError for a missing file or
\* when the read fails (readOk = FALSE)
GetFileHash(f, p, readOk) ==
    IF ~f[p].exists \/ ~readOk
    THEN [ok |-> FALSE]
    ELSE [ok |-> TRUE, hex |-> <<"sha256", ReadBlocks(0, f[p].bytes)>>]

\* is_processed without its try/except: the OSError of os.stat escapes
IsProcessedNoCatch(d, f, p) ==
    LET filename == Basename(p)
        current_info == GetFileInfo(f, p)
        stored_info == DictGet(d, filename)
    IN  IF ~DictHas(d, filename) THEN Return(FALSE)
        ELSE IF ~current_info.ok THEN [out |-> "raise", val |-> FALSE]
        ELSE Return(/\ current_info.size = stored_info.size
                    /\ current_info.modified_time = stored_info.modified_time)

\* is_processed comparing the size only
IsProcessedSizeOnly(d, f, p) ==
    LET filename == Basename(p)
        current_info == GetFileInfo(f, p)
        stored_info == DictGet(d, filename)
    IN  IF ~DictHas(d, filename) THEN Return(FALSE)
        ELSE IF ~current_info.ok THEN Return(FALSE)
        ELSE Return(current_info.size = stored_info.size)

\* is_processed hashing the file again and comparing the digest as well
IsProcessedRehashes(d, f, p) ==
    LET filename == Basename(p)
        current_info == GetFileInfo(f, p)
        stored_info == DictGet(d, filename)
    IN  IF ~DictHas(d, filename) THEN Return(FALSE)
        ELSE IF ~current_info.ok THEN Return(FALSE)
        ELSE Return(/\ current_info.size = stored_info.size
                    /\ current_info.modified_time = stored_info.modified_time
                    /\ GetFileHash(f, p, TRUE).hex = stored_info.content_hash)

\* FileTracker.is_processed
IsProcessed(d, f, p) ==
    LET filename == Basename(p)
        current_info == GetFileInfo(f, p)
        stored_info == DictGet(d, filename)
    IN  IF ~DictHas(d, filename) THEN Return(FALSE)
        ELSE IF ~current_info.ok THEN Return(FALSE)
        ELSE IF \/ current_info.size # stored_info.size
                \/ current_info.modified_time # stored_info.modified_time
             THEN Return(FALSE)
        ELSE Return(TRUE)

\* is_updated with "and" for "or": updated only when size and mtime both differ
IsUpdatedBothDiffer(d, f, p) ==
    LET filename == Basename(p)
        current_info == GetFileInfo(f, p)
        stored_info == DictGet(d, filename)
    IN  IF ~DictHas(d, filename) THEN Return(FALSE)
        ELSE IF ~current_info.ok THEN Return(FALSE)
        ELSE Return(/\ current_info.size # stored_info.size
                    /\ current_info.modified_time # stored_info.modified_time)

\* FileTracker.is_updated
IsUpdated(d, f, p) ==
    LET filename == Basename(p)
        current_info == GetFileInfo(f, p)
        stored_info == DictGet(d, filename)
    IN  IF ~DictHas(d, filename) THEN Return(FALSE)
        ELSE IF ~current_info.ok THEN Return(FALSE)
        ELSE IF \/ current_info.size # stored_info.size
                \/ current_info.modified_time # stored_info.modified_time
             THEN Return(TRUE)
        ELSE Return(FALSE)

\* mark_processed storing the time of processing as modified_time
MarkProcessedStoresNow(d, f, p, chunks_count, now, readOk) ==
    LET filename == Basename(p)
        file_info == GetFileInfo(f, p)
        file_hash == GetFileHash(f, p, readOk)
    IN  IF ~file_info.ok THEN [out |-> "raise", why |-> "stat", mem |-> d, save |-> FALSE]
        ELSE IF ~file_hash.ok THEN [out |-> "raise", why |-> "hash", mem |-> d, save |-> FALSE]
        ELSE [out  |-> "return",
              why  |-> "",
              mem  |-> DictPut(d, filename,
                          [size           |-> file_info.size,
                           modified_time  |-> now,
                           modified_date  |-> file_info.modified_date,
                           processed_date |-> IsoFormat(now),
                           chunks_count   |-> chunks_count,
                           content_hash   |-> file_hash.hex]),
              save |-> TRUE]

\* mark_processed dropping the earlier record of the file before it hashes
MarkProcessedDropsFirst(d, f, p, chunks_count, now, readOk) ==
    LET filename == Basename(p)
        file_info == GetFileInfo(f, p)
        file_hash == GetFileHash(f, p, readOk)
    IN  IF ~file_info.ok THEN [out |-> "raise", why |-> "stat", mem |-> d, save |-> FALSE]
        ELSE IF ~file_hash.ok
             THEN [out |-> "raise", why |-> "hash", mem |-> DictDel(d, filename), save |-> FALSE]
        ELSE [out  |-> "return",
              why  |-> "",
              mem  |-> DictPut(d, filename,
                          [size           |-> file_info.size,
                           modified_time  |-> file_info.modified_time,
                           modified_date  |-> file_info.modified_date,
                           processed_date |-> IsoFormat(now),
                           chunks_count   |-> chunks_count,
                           content_hash   |-> file_hash.hex]),
              save |-> TRUE]

\* mark_processed with a hash object that lives on between the calls: the
\* digest of a file with a record goes on from the stored digest
MarkProcessedKeepsHasher(d, f, p, chunks_count, now, readOk) ==
    LET filename == Basename(p)
        file_info == GetFileInfo(f, p)
        file_hash == GetFileHash(f, p, readOk)
        start == IF DictHas(d, filename) THEN DictGet(d, filename).content_hash[2] ELSE 0
    IN  IF ~file_info.ok THEN [out |-> "raise", why |-> "stat", mem |-> d, save |-> FALSE]
        ELSE IF ~file_hash.ok THEN [out |-> "raise", why |-> "hash", mem |-> d, save |-> FALSE]
        ELSE [out  |-> "return",
              why  |-> "",
              mem  |-> DictPut(d, filename,
                          [size           |-> file_info.size,
                           modified_time  |-> file_info.modified_time,
                           modified_date  |-> file_info.modified_date,
                           processed_date |-> IsoFormat(now),
                           chunks_count   |-> chunks_count,
                           content_hash   |-> <<"sha256", ReadBlocks(start, f[p].bytes)>>]),
              save |-> TRUE]

\* mark_processed updating the earlier record of the filename field by field:
\* the date of the first processing is kept
MarkProcessedMerges(d, f, p, chunks_count, now, readOk) ==
    LET filename == Basename(p)
        file_info == GetFileInfo(f, p)
        file_hash == GetFileHash(f, p, readOk)
    IN  IF ~file_info.ok THEN [out |-> "raise", why |-> "stat", mem |-> d, save |-> FALSE]
        ELSE IF ~file_hash.ok THEN [out |-> "raise", why |-> "hash", mem |-> d, save |-> FALSE]
        ELSE [out  |-> "return",
              why  |-> "",
              mem  |-> DictPut(d, filename,
                          [size           |-> file_info.size,
                           modified_time  |-> file_info.modified_time,
                           modified_date  |-> file_info.modified_date,
                           processed_date |-> IF DictHas(d, filename)
                                              THEN DictGet(d, filename).processed_date
                                              ELSE IsoFormat(now),
                           chunks_count   |-> chunks_count,
                           content_hash   |-> file_hash.hex]),
              save |-> TRUE]

\* FileTracker.mark_processed up to the call of _save_tracking_data:
\* the outcome, the dict afterwards and whether the save is reached
MarkProcessed(d, f, p, chunks_count, now, readOk) ==
    LET filename == Basename(p)
        file_info == GetFileInfo(f, p)
        file_hash == GetFileHash(f, p, readOk)
    IN  IF ~file_info.ok THEN [out |-> "raise", why |-> "stat", mem |-> d, save |-> FALSE]
        ELSE IF ~file_hash.ok THEN [out |-> "raise", why |-> "hash", mem |-> d, save |-> FALSE]
        ELSE [out  |-> "return",
              why  |-> "",
              mem  |-> DictPut(d, filename,
                          [size           |-> file_info.size,
                           modified_time  |-> file_info.modified_time,
                           modified_date  |-> file_info.modified_date,
                           processed_date |-> IsoFormat(now),
                           chunks_count   |-> chunks_count,
                           content_hash   |-> file_hash.hex]),
              save |-> TRUE]

\* FileTracker.remove_file up to the call of _save_tracking_data
RemoveFile(d, p) ==
    LET filename == Basename(p)
    IN  IF DictHas(d, filename)
        THEN [mem |-> DictDel(d, filename), save |-> TRUE]
        ELSE [mem |-> d, save |-> FALSE]

\* FileTracker.clear_tracking up to the call of _save_tracking_data
ClearTracking(d) == [mem |-> EmptyDict, save |-> TRUE]

\* the ways _save_tracking_data can end: it writes the whole document; or
\* os.makedirs / open raise before the file is touched; or open(..., 'w') has
\* truncated the file and json.dump raises part-way
SaveOutcomes == {"ok", "fail_open", "fail_write"}

\* FileTracker._save_tracking_data
SaveTrackingData(d, dk, io) ==
    CASE io = "ok"         -> [out |-> "return", disk |-> JsonDump(d)]
      [] io = "fail_open"  -> [out |-> "raise", disk |-> dk]
      [] io = "fail_write" -> [out |-> "raise", disk |-> BadJson]

\* FileTracker._load_tracking_data: JSONDecodeError and IOError are caught,
\* the UnicodeDecodeError of a document that is no UTF-8 text is not
LoadTrackingData(dk, openOk) ==
    IF dk.kind = "missing" THEN [out |-> "return", data |-> EmptyDict]
    ELSE IF ~openOk THEN [out |-> "return", data |-> EmptyDict]
    ELSE IF dk.kind = "badjson" THEN [out |-> "return", data |-> EmptyDict]
    ELSE IF dk.kind = "badutf8" THEN [out |-> "raise", data |-> EmptyDict]
    ELSE [out |-> "return", data |-> JsonLoad(dk)]

\* FileTracker.get_stats
RECURSIVE SumChunks(_)
SumChunks(d) == IF d = <<>> THEN 0 ELSE Head(d).v.chunks_count + SumChunks(Tail(d))

GetStats(d) == [total_files |-> Len(d), total_chunks |-> SumChunks(d)]

\* FileTracker.get_processed_info
None == <<>>

GetProcessedInfo(d, p) ==
    IF DictHas(d, Basename(p)) THEN DictGet(d, Basename(p)) ELSE None

\* the loop without "if filename == current_filename: continue"
RECURSIVE ScanIncludingSelf(_, _, _, _)
ScanIncludingSelf(d, i, current_filename, current_hash) ==
    IF i > Len(d) THEN None
    ELSE IF d[i].v.content_hash = current_hash
         THEN <<d[i].k, SplitExt(d[i].k)>>
    ELSE ScanIncludingSelf(d, i + 1, current_filename, current_hash)

\* the loop keeping the last match instead of returning the first
RECURSIVE ScanKeepingLast(_, _, _, _)
ScanKeepingLast(d, i, current_filename, current_hash) ==
    IF i > Len(d) THEN None
    ELSE LET later == ScanKeepingLast(d, i + 1, current_filename, current_hash)
         IN  IF later # None THEN later
             ELSE IF d[i].k # current_filename /\ d[i].v.content_hash = current_hash
                  THEN <<d[i].k, SplitExt(d[i].k)>>
             ELSE None

\* the loop of find_duplicate_by_hash over self.processed_files.items():
\* the first entry from position i on that is another file with this hash
RECURSIVE ScanForHash(_, _, _, _)
ScanForHash(d, i, current_filename, current_hash) ==
    IF i > Len(d) THEN None
    ELSE IF d[i].k = current_filename
         THEN ScanForHash(d, i + 1, current_filename, current_hash)
    ELSE IF d[i].v.content_hash = current_hash
         THEN <<d[i].k, SplitExt(d[i].k)>>
    ELSE ScanForHash(d, i + 1, current_filename, current_hash)

\* find_duplicate_by_hash without its try/except: the read error escapes
FindDuplicateByHashNoCatch(d, f, p, readOk) ==
    LET current_hash == GetFileHash(f, p, readOk)
        current_filename == Basename(p)
    IN  IF ~current_hash.ok
        THEN [out |-> "raise", dup |-> None, warned |-> FALSE]
        ELSE [out |-> "return",
              dup |-> ScanForHash(d, 1, current_filename, current_hash.hex),
              warned |-> FALSE]

\* FileTracker.find_duplicate_by_hash: any exception is caught and None returned
FindDuplicateByHash(d, f, p, readOk) ==
    LET current_hash == GetFileHash(f, p, readOk)
        current_filename == Basename(p)
    IN  IF ~current_hash.ok
        THEN [out |-> "return", dup |-> None, warned |-> TRUE]
        ELSE [out |-> "return",
              dup |-> ScanForHash(d, 1, current_filename, current_hash.hex),
              warned |-> FALSE]

(***************************************************************************)
(* TextChunker (src/src/chunking/text_chunker.py).                         *)
(***************************************************************************)
\* TextChunker.__init__: the two sizes are stored as given, nothing is checked
TextChunkerInit(chunk_size, chunk_overlap) ==
    [out |-> "return", chunk_size |-> chunk_size, chunk_overlap |-> chunk_overlap]

\* self.separators
Separators == << <<"\n", "\n">>, <<"\n">>, <<".", " ">>, <<"!", " ">>, <<"?", " ">>,
                <<" ">>, <<>> >>

\* the characters str.strip() removes, among those of the texts
Whitespace == {" ", "\n"}

\* text[i:].startswith(sep), i counted from 1
StartsAt(t, sep, i) ==
    /\ i + Len(sep) - 1 <= Len(t)
    /\ SubSeq(t, i, i + Len(sep) - 1) = sep

\* separator in text
StrContains(t, sep) == \E i \in 1..Len(t) : StartsAt(t, sep, i)

\* text.split(separator) for a separator that is not empty
RECURSIVE StrSplit(_, _)
StrSplit(t, sep) ==
    IF ~StrContains(t, sep) THEN <<t>>
    ELSE LET i == CHOOSE k \in 1..Len(t) :
                     StartsAt(t, sep, k) /\ \A j \in 1..(k - 1) : ~StartsAt(t, sep, j)
         IN  <<SubSeq(t, 1, i - 1)>> \o StrSplit(SubSeq(t, i + Len(sep), Len(t)), sep)

\* s.lstrip()
RECURSIVE LStrip(_)
LStrip(t) == IF t # <<>> /\ Head(t) \in Whitespace THEN LStrip(Tail(t)) ELSE t

\* s.rstrip()
RECURSIVE RStrip(_)
RStrip(t) ==
    IF t # <<>> /\ t[Len(t)] \in Whitespace THEN RStrip(SubSeq(t, 1, Len(t) - 1)) ELSE t

\* s.strip()
Strip(t) == RStrip(LStrip(t))

\* text[i:i + n], i counted from 0
Slice(t, i, n) == SubSeq(t, i + 1, IF i + n < Len(t) THEN i + n ELSE Len(t))

\* the last-resort loop of _split_text: range(0, len(text), step) raises
\* ValueError for a step of 0 and is empty for a negative step
RECURSIVE StrideSlices(_, _, _, _)
StrideSlices(t, i, chunk_size, step) ==
    IF i >= Len(t) THEN <<>>
    ELSE <<Slice(t, i, chunk_size)>> \o StrideSlices(t, i + step, chunk_size, step)

SplitByCharacter(t, chunk_size, chunk_overlap) ==
    LET step == chunk_size - chunk_overlap
    IN  IF step = 0 THEN [out |-> "raise", chunks |-> <<>>]
        ELSE IF step < 0 THEN [out |-> "return", chunks |-> <<>>]
        ELSE [out |-> "return", chunks |-> StrideSlices(t, 0, chunk_size, step)]

\* prev_chunk[-self.chunk_overlap:] if len(prev_chunk) > self.chunk_overlap
\* else prev_chunk
OverlapText(prev_chunk, chunk_overlap) ==
    IF Len(prev_chunk) > chunk_overlap
    THEN SubSeq(prev_chunk, Len(prev_chunk) - chunk_overlap + 1, Len(prev_chunk))
    ELSE prev_chunk

\* the "Add overlap" pass at the end of _split_text
AddOverlap(cs, chunk_overlap) ==
    IF chunk_overlap > 0 /\ Len(cs) > 1
    THEN [i \in DOMAIN cs |->
             IF i = 1 THEN cs[1]
             ELSE OverlapText(cs[i - 1], chunk_overlap) \o <<" ">> \o cs[i]]
    ELSE cs

\* the first separator of self.separators that is "" or occurs in the text
FirstSeparator(t) ==
    Separators[CHOOSE k \in DOMAIN Separators :
                  /\ Separators[k] = <<>> \/ StrContains(t, Separators[k])
                  /\ \A j \in 1..(k - 1) :
                         Separators[j] # <<>> /\ ~StrContains(t, Separators[j])]

RECURSIVE SplitText(_, _, _)
RECURSIVE MergeParts(_, _, _, _, _, _, _)

\* the loop with "<" for "<=": a part that fills the chunk to chunk_size
\* exactly does not join it
MergePartsBelowSize(parts, i, current_chunk, cs, separator, chunk_size, chunk_overlap) ==
    IF i > Len(parts)
    THEN [out    |-> "return",
          chunks |-> IF current_chunk # <<>> THEN Append(cs, Strip(current_chunk)) ELSE cs]
    ELSE LET part == parts[i]
         IN  IF Len(current_chunk) + Len(part) + Len(separator) < chunk_size
             THEN MergeParts(parts, i + 1, current_chunk \o part \o separator, cs,
                             separator, chunk_size, chunk_overlap)
             ELSE LET flushed == IF current_chunk # <<>>
                                 THEN Append(cs, Strip(current_chunk))
                                 ELSE cs
                  IN  IF Len(part) > chunk_size
                      THEN LET sub_chunks == SplitText(part, chunk_size, chunk_overlap)
                           IN  IF sub_chunks.out = "raise"
                               THEN [out |-> "raise", chunks |-> <<>>]
                               ELSE MergeParts(parts, i + 1, <<>>,
                                               flushed \o sub_chunks.chunks,
                                               separator, chunk_size, chunk_overlap)
                      ELSE MergeParts(parts, i + 1, part \o separator, flushed,
                                      separator, chunk_size, chunk_overlap)

\* the loop "for part in parts" of _split_text from part i on, and the flush
\* of current_chunk after it
MergeParts(parts, i, current_chunk, cs, separator, chunk_size, chunk_overlap) ==
    IF i > Len(parts)
    THEN [out    |-> "return",
          chunks |-> IF current_chunk # <<>> THEN Append(cs, Strip(current_chunk)) ELSE cs]
    ELSE LET part == parts[i]
         IN  IF Len(current_chunk) + Len(part) + Len(separator) <= chunk_size
             THEN MergeParts(parts, i + 1, current_chunk \o part \o separator, cs,
                             separator, chunk_size, chunk_overlap)
             ELSE LET flushed == IF current_chunk # <<>>
                                 THEN Append(cs, Strip(current_chunk))
                                 ELSE cs
                  IN  IF Len(part) > chunk_size
                      THEN LET sub_chunks == SplitText(part, chunk_size, chunk_overlap)
                           IN  IF sub_chunks.out = "raise"
                               THEN [out |-> "raise", chunks |-> <<>>]
                               ELSE MergeParts(parts, i + 1, <<>>,
                                               flushed \o sub_chunks.chunks,
                                               separator, chunk_size, chunk_overlap)
                      ELSE MergeParts(parts, i + 1, part \o separator, flushed,
                                      separator, chunk_size, chunk_overlap)

\* TextChunker._split_text: how the call ends and the chunks it returns
SplitText(t, chunk_size, chunk_overlap) ==
    IF Len(t) <= chunk_size THEN [out |-> "return", chunks |-> <<t>>]
    ELSE LET separator == FirstSeparator(t)
             r == IF separator = <<>>
                  THEN SplitByCharacter(t, chunk_size, chunk_overlap)
                  ELSE MergeParts(StrSplit(t, separator), 1, <<>>, <<>>,
                                  separator, chunk_size, chunk_overlap)
         IN  IF r.out = "raise" THEN r
             ELSE [out |-> "return", chunks |-> AddOverlap(r.chunks, chunk_overlap)]

\* chunk_data.update(metadata), done when metadata is neither None nor empty:
\* a key of metadata that chunk_data has already gets the value of metadata
DictUpdate(chunk_data, m) ==
    IF m = None THEN chunk_data
    ELSE [k \in DOMAIN chunk_data \cup DOMAIN m |->
             IF k \in DOMAIN m THEN m[k] ELSE chunk_data[k]]

\* TextChunker.chunk_text: one dict per chunk of _split_text; an exception of
\* _split_text is not caught
ChunkText(t, m, chunk_size, chunk_overlap) ==
    LET r == SplitText(t, chunk_size, chunk_overlap)
    IN  IF r.out = "raise" THEN [out |-> "raise", result |-> <<>>]
        ELSE [out    |-> "return",
              result |-> [i \in DOMAIN r.chunks |->
                             DictUpdate([text         |-> r.chunks[i],
                                         chunk_index  |-> i - 1,
                                         total_chunks |-> Len(r.chunks)], m)]]

\* TextChunker(): chunk_size = 1000, chunk_overlap = 200
DefaultChunker == [chunk_size |-> 1000, chunk_overlap |-> 200]

\* no call of _split_text has been made on the object
NotCalled == [out |-> "none"]

\* no TextChunker object has been made
NoChunker == [out |-> "none"]

\* range(0, n, step) for a step that is not 0: whether the loop variable,
\* having reached i, is still in the range
RangeHasWhile(i, n, step) == i < n

RangeHas(i, n, step) == IF step > 0 THEN i < n ELSE i > n

\* the frame of a call of _split_text on a text longer than chunk_size, when
\* the separator is chosen: the parts, the loop variable (the position in the
\* range, or the number of the part), current_chunk and chunks
Frame(t) ==
    LET separator == FirstSeparator(t)
    IN  [t             |-> t,
         separator     |-> separator,
         parts         |-> IF separator = <<>> THEN <<>> ELSE StrSplit(t, separator),
         i             |-> IF separator = <<>> THEN 0 ELSE 1,
         current_chunk |-> <<>>,
         chunks        |-> <<>>]

\* the call on top of the frames returns value: the outermost call has
\* returned, or the caller goes on after chunks.extend(sub_chunks)
Deliver(callers, value) ==
    IF callers = <<>>
    THEN [stack |-> <<>>, chunks |-> [out |-> "return", chunks |-> value]]
    ELSE LET n == Len(callers)
         IN  [stack  |-> [callers EXCEPT ![n] =
                            [@ EXCEPT !.chunks = @ \o value,
                                      !.current_chunk = <<>>,
                                      !.i = @ + 1]],
              chunks |-> NotCalled]

\* an exception leaves every frame
Propagate == [stack |-> <<>>, chunks |-> [out |-> "raise", chunks |-> <<>>]]

\* one turn of "for i in range(0, len(text), self.chunk_size -
\* self.chunk_overlap)" in the frame on top, or the end of the loop
StrideTurn(frames, chunk_size, chunk_overlap) ==
    LET n == Len(frames)
        top == frames[n]
        step == chunk_size - chunk_overlap
    IN  IF step = 0 THEN Propagate
        ELSE IF RangeHas(top.i, Len(top.t), step)
        THEN [stack  |-> [frames EXCEPT ![n] =
                            [top EXCEPT !.chunks = Append(@, Slice(top.t, top.i, chunk_size)),
                                        !.i = @ + step]],
              chunks |-> NotCalled]
        ELSE Deliver(SubSeq(frames, 1, n - 1), AddOverlap(top.chunks, chunk_overlap))

\* one turn of "for part in parts" in the frame on top, or the end of the loop
PartTurn(frames, chunk_size, chunk_overlap) ==
    LET n == Len(frames)
        top == frames[n]
        flushed == IF top.current_chunk # <<>>
                   THEN Append(top.chunks, Strip(top.current_chunk))
                   ELSE top.chunks
    IN  IF top.i > Len(top.parts)
        THEN Deliver(SubSeq(frames, 1, n - 1), AddOverlap(flushed, chunk_overlap))
        ELSE LET part == top.parts[top.i]
             IN  IF Len(top.current_chunk) + Len(part) + Len(top.separator) <= chunk_size
                 THEN [stack  |-> [frames EXCEPT ![n] =
                                     [top EXCEPT !.current_chunk = @ \o part \o top.separator,
                                                 !.i = @ + 1]],
                       chunks |-> NotCalled]
                 ELSE IF Len(part) > chunk_size
                 THEN [stack  |-> Append([frames EXCEPT ![n] = [top EXCEPT !.chunks = flushed]],
                                         Frame(part)),
                       chunks |-> NotCalled]
                 ELSE [stack  |-> [frames EXCEPT ![n] =
                                     [top EXCEPT !.chunks = flushed,
                                                 !.current_chunk = part \o top.separator,
                                                 !.i = @ + 1]],
                       chunks |-> NotCalled]

(***************************************************************************)
(* The driver (src/scripts/process_documents.py), the parsers, the         *)
(* embedder and the vector store (src/src/vector_store/chroma_store.py).   *)
(***************************************************************************)
\* md_filename = os.path.splitext(filename)[0] + '.md'
MdFilename(filename) == <<filename[1], ".md">>

MdNames == {MdFilename(Basename(p)) : p \in AllPaths}

\* the text a parser extracts from the bytes of a file
ByteChar(b) == IF b = 0 THEN "0" ELSE "1"

Decode(bytes) == [i \in DOMAIN bytes |-> ByteChar(bytes[i])]

\* Parser.to_markdown(file_path, md_path): parse catches every exception and
\* returns None, and to_markdown then writes nothing and returns False; else
\* the markdown file gets a title line and the text of the file
ToMarkdown(f, p, parseOk) ==
    IF ~f[p].exists \/ ~parseOk
    THEN [ok |-> FALSE, content |-> None]
    ELSE [ok      |-> TRUE,
          content |-> <<"#", " ", Basename(p)[1], "\n", "\n">> \o Decode(f[p].bytes)]

\* TextChunker.chunk_file(md_path): any exception gives []
ChunkFile(mdfiles, md_filename, readOk, chunk_size, chunk_overlap) ==
    IF mdfiles[md_filename] = None \/ ~readOk THEN <<>>
    ELSE LET r == ChunkText(mdfiles[md_filename],
                            [source    |-> md_filename,
                             file_path |-> <<"markdown", md_filename>>],
                            chunk_size, chunk_overlap)
         IN  IF r.out = "raise" THEN <<>> ELSE r.result

\* the loop "for raw_path, md_path in files_to_process" from the i-th on
RECURSIVE ChunkFiles(_, _, _, _, _, _)
ChunkFiles(files_to_process, i, mdfiles, unreadable, cs, file_chunks_map) ==
    IF i > Len(files_to_process)
    THEN [chunks |-> cs, file_chunks_map |-> file_chunks_map]
    ELSE LET raw_path == files_to_process[i][1]
             md_path == files_to_process[i][2]
             file_chunks == ChunkFile(mdfiles, md_path, md_path \notin unreadable,
                                      DefaultChunker.chunk_size,
                                      DefaultChunker.chunk_overlap)
         IN  ChunkFiles(files_to_process, i + 1, mdfiles, unreadable,
                        cs \o file_chunks,
                        DictPut(file_chunks_map, raw_path, Len(file_chunks)))

\* what embedder.embed_text gives for the chunks: a vector, or [] when the
\* call failed
EmbedOutcomes == {"all", "none", "first_fails"}

Embeddings(cs, outcome) ==
    [i \in DOMAIN cs |-> CASE outcome = "all"         -> TRUE
                           [] outcome = "none"        -> FALSE
                           [] outcome = "first_fails" -> i # 1]

\* the indices of the valid embeddings, in order
RECURSIVE ValidFrom(_, _)
ValidFrom(embeddings, i) ==
    IF i > Len(embeddings) THEN <<>>
    ELSE (IF embeddings[i] THEN <<i>> ELSE <<>>) \o ValidFrom(embeddings, i + 1)

\* valid_data: the chunks whose embedding is valid
ValidChunks(cs, embeddings) ==
    LET keep == ValidFrom(embeddings, 1) IN [k \in DOMAIN keep |-> cs[keep[k]]]

SourceIsNot(doc, source_file) == doc.chunk.source # source_file

\* ChromaStore.delete_by_source: the documents whose metadata has this source
\* are deleted
DeleteBySource(st, source_file) == SelectSeq(st, LAMBDA doc : SourceIsNot(doc, source_file))

\* for filename in files_to_update: vector_store.delete_by_source(filename)
RECURSIVE DeleteOldVersions(_, _, _)
DeleteOldVersions(st, files_to_update, i) ==
    IF i > Len(files_to_update) THEN st
    ELSE DeleteOldVersions(DeleteBySource(st, files_to_update[i]), files_to_update, i + 1)

\* ChromaStore.add_documents: every chunk is added under a new id (the number
\* of the run and of the chunk stand for uuid4)
AddDocuments(st, cs, n) == st \o [i \in DOMAIN cs |-> [id |-> <<n, i>>, chunk |-> cs[i]]]

\* where "Step 5: Store in ChromaDB" can fail: nowhere, in ChromaStore(...),
\* or in add_documents after the old versions were deleted
StoreOutcomes == {"ok", "fail_connect", "fail_add"}

\* the exception of the vector store caught and the run going on to mark
AfterStoreGoesOn(outcome) == "mark"

\* an exception of the vector store is not caught: the run ends there
AfterStore(outcome) == IF outcome = "ok" THEN "mark" ELSE "crashed"

\* the parse loop without the test of is_processed
ScanFileNeverSkips(d, f, p, force, readOk, parseOk) ==
    LET duplicate_info == FindDuplicateByHash(d, f, p, readOk).dup
    IN  IF duplicate_info # None /\ ~force
        THEN [kind |-> "duplicate", is_update |-> FALSE, content |-> None]
        ELSE LET is_update == IsUpdated(d, f, p).val
                 r == ToMarkdown(f, p, parseOk)
             IN  [kind      |-> IF r.ok THEN "parsed" ELSE "failed",
                  is_update |-> is_update,
                  content   |-> r.content]

\* one turn of the parse loop, for the file at path p: skipped as processed,
\* skipped as a duplicate, parsed to markdown, or failed to parse
ScanFile(d, f, p, force, readOk, parseOk) ==
    IF ~force /\ IsProcessed(d, f, p).val
    THEN [kind |-> "processed", is_update |-> FALSE, content |-> None]
    ELSE LET duplicate_info == FindDuplicateByHash(d, f, p, readOk).dup
         IN  IF duplicate_info # None /\ ~force
             THEN [kind |-> "duplicate", is_update |-> FALSE, content |-> None]
             ELSE LET is_update == IsUpdated(d, f, p).val
                      r == ToMarkdown(f, p, parseOk)
                  IN  [kind      |-> IF r.ok THEN "parsed" ELSE "failed",
                       is_update |-> is_update,
                       content   |-> r.content]

\* the driver is not running and has not run
NotRunning == [pc |-> "none"]

\* the locals of main() when the parse loop begins
Locals(force, listing) ==
    [pc               |-> "scan",
     force            |-> force,
     listing          |-> listing,
     parsed_count     |-> 0,
     skipped_count    |-> 0,
     updated_count    |-> 0,
     duplicate_count  |-> 0,
     files_to_process |-> <<>>,
     files_to_update  |-> <<>>,
     chunks           |-> <<>>,
     file_chunks_map  |-> EmptyDict,
     marking          |-> 1]

VARIABLES
    fs,         \* the file system: path -> NoFile or [exists, bytes, mtime]
    mem,        \* self.processed_files of the tracker instance
    disk,       \* the persisted tracking document
    last,       \* the tracker call that has just returned, and its outcome
    okSince,    \* history: the paths marked processed whose file has not changed
                \* and whose record was not removed or cleared since
    owner,      \* history: per filename, the path of the mark_processed call
                \* that wrote the record the instance holds
    staleSince, \* history: the paths whose size or mtime changed while the
                \* instance held the record of their mark_processed call, with no
                \* successful mark_processed of the path since
    markOrder,  \* history: the filenames that have a record, in the order of
                \* the mark_processed call that created the record
    applied,    \* history: per filename, the record of the last mark_processed
                \* call that returned, None after a later remove_file or
                \* clear_tracking call
    mem2,       \* self.processed_files of a second tracker instance over the
                \* same tracking document
    writers,    \* history: the instances (1, 2) on which a mutating call was made
    chunker,    \* the TextChunker object: its chunk_size and chunk_overlap
    text,       \* the text given to TextChunker._split_text
    chunks,     \* the call of _split_text or chunk_text: not made yet, or how
                \* it ended
    metadata,   \* the metadata given to TextChunker.chunk_text
    earlier,    \* history: an earlier call on the chunker, its arguments and
                \* what it returned
    stack,      \* the frames of a call of _split_text that is running
    store,      \* the collection of the vector store: its documents in the
                \* order they were added
    md,         \* the markdown directory: markdown filename -> content
    run,        \* the run of scripts/process_documents.py in progress
    hist        \* history of the driver runs

vars == <<fs, mem, disk, last, okSince, owner, staleSince, markOrder,
          applied, mem2, writers, chunker, text, chunks, metadata, earlier,
          stack, store, md, run, hist>>

\* what a call of chunk_text, and a stepwise call of _split_text, work on
callVars == <<metadata, earlier, stack>>

\* what the calls on the first tracker instance that change nothing leave alone
chunkerVars == <<chunker, text, chunks, callVars>>

\* what the driver works on, besides the tracker and the file system
driverVars == <<store, md, run, hist>>

Idle == [op |-> "none"]

Filenames == {Basename(p) : p \in AllPaths}

NoPath == [dir |-> "", name |-> <<"", "">>]

SameName(p) == {q \in AllPaths : Basename(q) = Basename(p)}

File(bytes, mtime) == [exists |-> TRUE, bytes |-> bytes, mtime |-> mtime]

\* no call of chunk_text was made, no call of _split_text is running
NoCall ==
    /\ metadata = None
    /\ earlier = None
    /\ stack = <<>>

\* no driver run was started and no file written. The history of the run in
\* progress: the version of each file it extracted, whether its chunks were
\* added to the vector
\* store, the files it marked, the files whose extraction or hashing failed,
\* whether the records it loaded had a content_hash each of its own; and
\* across the runs: the files a run without --force marked with no file of
\* the raw directory written since
NoHistory ==
    [runs      |-> 0,
     writes    |-> 0,
     extracted |-> [p \in AllPaths |-> NoFile],
     added     |-> FALSE,
     marked    |-> {},
     failed    |-> {},
     unique    |-> TRUE,
     clean     |-> {}]

\* the driver has never run: nothing in the vector store, no markdown file
NoRun ==
    /\ store = <<>>
    /\ md = [n \in MdNames |-> None]
    /\ run = NotRunning
    /\ hist = NoHistory

\* the state after FileTracker(tracking_file) over no tracking document
Init ==
    /\ fs = [p \in AllPaths |-> NoFile]
    /\ mem = LoadTrackingData(NoDoc, TRUE).data
    /\ disk = NoDoc
    /\ last = Idle
    /\ okSince = {}
    /\ owner = [n \in Filenames |-> NoPath]
    /\ staleSince = {}
    /\ markOrder = <<>>
    /\ applied = [n \in Filenames |-> None]
    /\ mem2 = LoadTrackingData(NoDoc, TRUE).data
    /\ writers = {}
    /\ chunker = DefaultChunker
    /\ text = <<>>
    /\ chunks = NotCalled
    /\ NoCall
    /\ NoRun

(***************************************************************************)
(* The environment: files are written, touched and deleted; the tracking   *)
(* document is damaged.                                                    *)
(***************************************************************************)
StatChanged(old, new) ==
    old.exists /\ new.exists /\ (Len(old.bytes) # Len(new.bytes) \/ old.mtime # new.mtime)

WriteFile(p, bytes, mtime) ==
    /\ fs[p] # File(bytes, mtime)
    /\ fs' = [fs EXCEPT ![p] = File(bytes, mtime)]
    /\ okSince' = okSince \ {p}
    /\ staleSince' = IF /\ DictHas(mem, Basename(p))
                        /\ owner[Basename(p)] = p
                        /\ StatChanged(fs[p], File(bytes, mtime))
                     THEN staleSince \cup {p}
                     ELSE staleSince
    /\ last' = Idle
    /\ UNCHANGED <<mem, disk, owner, markOrder>>
    /\ UNCHANGED <<applied, mem2, writers, chunkerVars, driverVars>>

DeleteFile(p) ==
    /\ fs[p].exists
    /\ fs' = [fs EXCEPT ![p] = NoFile]
    /\ okSince' = okSince \ {p}
    /\ last' = Idle
    /\ UNCHANGED <<mem, disk, owner, staleSince, markOrder>>
    /\ UNCHANGED <<applied, mem2, writers, chunkerVars, driverVars>>

CorruptDocument(doc) ==
    /\ disk.kind # "missing"
    /\ disk # doc
    /\ disk' = doc
    /\ last' = Idle
    /\ UNCHANGED <<fs, mem, okSince, owner, staleSince, markOrder>>
    /\ UNCHANGED <<applied, mem2, writers, chunkerVars, driverVars>>

(***************************************************************************)
(* The calls on the tracker instance.                                      *)
(***************************************************************************)
CallIsProcessed(p) ==
    LET r == IsProcessed(mem, fs, p)
    IN  /\ last' = [op |-> "is_processed", path |-> p, out |-> r.out, val |-> r.val]
        /\ UNCHANGED <<fs, mem, disk, okSince, owner, staleSince, markOrder>>
        /\ UNCHANGED <<applied, mem2, writers, chunkerVars, driverVars>>

CallIsUpdated(p) ==
    LET r == IsUpdated(mem, fs, p)
    IN  /\ last' = [op |-> "is_updated", path |-> p, out |-> r.out, val |-> r.val]
        /\ UNCHANGED <<fs, mem, disk, okSince, owner, staleSince, markOrder>>
        /\ UNCHANGED <<applied, mem2, writers, chunkerVars, driverVars>>

CallFindDuplicate(p, readOk) ==
    LET r == FindDuplicateByHash(mem, fs, p, readOk)
    IN  /\ last' = [op |-> "find_duplicate_by_hash", path |-> p, out |-> r.out,
                    dup |-> r.dup, readOk |-> readOk]
        /\ UNCHANGED <<fs, mem, disk, okSince, owner, staleSince, markOrder>>
        /\ UNCHANGED <<applied, mem2, writers, chunkerVars, driverVars>>

CallMarkProcessed(p, chunks_count, now, readOk, io) ==
    LET r == MarkProcessed(mem, fs, p, chunks_count, now, readOk)
        s == SaveTrackingData(r.mem, disk, io)
        out == IF r.save THEN s.out ELSE r.out
        filename == Basename(p)
    IN  /\ r.save \/ io = "ok"
        /\ mem' = r.mem
        /\ disk' = IF r.save THEN s.disk ELSE disk
        /\ last' = [op |-> "mark_processed", path |-> p, out |-> out,
                    why |-> IF r.save /\ s.out = "raise" THEN "save" ELSE r.why,
                    mutated |-> r.save, chunks_count |-> chunks_count, now |-> now,
                    again |-> /\ last.op = "mark_processed"
                              /\ last.out = "return"
                              /\ last.path = p]
        /\ okSince' = IF out = "return" THEN okSince \cup {p} ELSE okSince
        /\ staleSince' = IF out = "return" THEN staleSince \ {p} ELSE staleSince
        /\ owner' = IF r.save THEN [owner EXCEPT ![filename] = p] ELSE owner
        /\ markOrder' = IF r.save /\ ~DictHas(mem, filename)
                        THEN Append(markOrder, filename)
                        ELSE markOrder
        /\ applied' = IF out = "return"
                      THEN [applied EXCEPT ![filename] = DictGet(r.mem, filename)]
                      ELSE applied
        /\ writers' = writers \cup {1}
        /\ UNCHANGED <<fs, mem2, chunkerVars, driverVars>>

CallRemoveFile(p, io) ==
    LET r == RemoveFile(mem, p)
        s == SaveTrackingData(r.mem, disk, io)
        filename == Basename(p)
    IN  /\ r.save \/ io = "ok"
        /\ mem' = r.mem
        /\ disk' = IF r.save THEN s.disk ELSE disk
        /\ last' = [op |-> "remove_file", path |-> p,
                    out |-> IF r.save THEN s.out ELSE "return", mutated |-> r.save]
        /\ okSince' = IF r.save THEN okSince \ SameName(p) ELSE okSince
        /\ owner' = IF r.save THEN [owner EXCEPT ![filename] = NoPath] ELSE owner
        /\ markOrder' = SelectSeq(markOrder, LAMBDA n : n # filename \/ ~r.save)
        /\ applied' = [applied EXCEPT ![filename] = None]
        /\ writers' = writers \cup {1}
        /\ UNCHANGED <<fs, staleSince, mem2, chunkerVars, driverVars>>

CallClearTracking(io) ==
    LET r == ClearTracking(mem)
        s == SaveTrackingData(r.mem, disk, io)
    IN  /\ mem' = r.mem
        /\ disk' = s.disk
        /\ last' = [op |-> "clear_tracking", out |-> s.out, mutated |-> r.save]
        /\ okSince' = {}
        /\ owner' = [n \in Filenames |-> NoPath]
        /\ markOrder' = <<>>
        /\ applied' = [n \in Filenames |-> None]
        /\ writers' = writers \cup {1}
        /\ UNCHANGED <<fs, staleSince, mem2, chunkerVars, driverVars>>

\* FileTracker(tracking_file): a new instance over the persisted document
\* replaces the old one; when the constructor raises there is no new instance
Construct(openOk) ==
    LET r == LoadTrackingData(disk, openOk)
    IN  /\ last' = [op |-> "init", out |-> r.out, doc |-> disk.kind, openOk |-> openOk]
        /\ mem' = IF r.out = "return" THEN r.data ELSE mem
        /\ okSince' = IF r.out = "return" THEN {} ELSE okSince
        /\ staleSince' = IF r.out = "return" THEN {} ELSE staleSince
        /\ owner' = IF r.out = "return" THEN [n \in Filenames |-> NoPath] ELSE owner
        /\ markOrder' = IF r.out = "return"
                        THEN [i \in DOMAIN r.data |-> r.data[i].k]
                        ELSE markOrder
        /\ UNCHANGED <<fs, disk, applied, mem2, writers, chunkerVars, driverVars>>

(***************************************************************************)
(* The tracker life cycle: one instance, every save succeeds.  RawA takes  *)
(* every content and modification time, the other two paths one file each. *)
(***************************************************************************)
LifeContents(p) ==
    IF p = RawA THEN Contents ELSE IF p = AltA THEN {<<0, 0>>} ELSE {<<1>>}

LifeMtimes(p) == IF p = RawA THEN Mtimes ELSE {1}

Next ==
    \/ \E p \in Paths : \E b \in LifeContents(p), t \in LifeMtimes(p) : WriteFile(p, b, t)
    \/ \E p \in Paths : DeleteFile(p)
    \/ \E p \in Paths : CallIsProcessed(p)
    \/ \E p \in Paths : CallIsUpdated(p)
    \/ \E p \in Paths, readOk \in BOOLEAN : CallMarkProcessed(p, 1, 1, readOk, "ok")
    \/ \E p \in Paths : CallRemoveFile(p, "ok")
    \/ CallClearTracking("ok")

Spec == Init /\ [][Next]_vars

(***************************************************************************)
(* Persistence: two files, saves that can fail, a tracking document that   *)
(* can be damaged, and new instances constructed over it.                  *)
(***************************************************************************)
IOPaths == {RawA, RawB}

CallGetStats ==
    LET r == GetStats(mem)
    IN  /\ last' = [op |-> "get_stats", out |-> "return",
                    total_files |-> r.total_files, total_chunks |-> r.total_chunks]
        /\ UNCHANGED <<fs, mem, disk, okSince, owner, staleSince, markOrder>>
        /\ UNCHANGED <<applied, mem2, writers, chunkerVars, driverVars>>

NextIO ==
    \/ \E p \in IOPaths : WriteFile(p, <<0>>, 1)
    \/ \E p \in IOPaths, readOk \in BOOLEAN, io \in SaveOutcomes :
          CallMarkProcessed(p, 1, 1, readOk, io)
    \/ \E p \in IOPaths, io \in SaveOutcomes : CallRemoveFile(p, io)
    \/ \E io \in SaveOutcomes : CallClearTracking(io)
    \/ \E openOk \in BOOLEAN : Construct(openOk)
    \/ \E doc \in {BadJson, BadUtf8} : CorruptDocument(doc)
    \/ CallGetStats

SpecIO == Init /\ [][NextIO]_vars

(***************************************************************************)
(* Duplicate detection: three files of two contents, marked and removed in *)
(* any order.                                                              *)
(***************************************************************************)
DupPaths == {RawA, RawB, RawC}

DupContents == {<<0>>, <<1>>}

NextDup ==
    \/ \E p \in DupPaths, b \in DupContents : WriteFile(p, b, 1)
    \/ \E p \in DupPaths, readOk \in BOOLEAN : CallMarkProcessed(p, 1, 1, readOk, "ok")
    \/ \E p \in DupPaths : CallRemoveFile(p, "ok")
    \/ \E p \in DupPaths, readOk \in BOOLEAN : CallFindDuplicate(p, readOk)

SpecDup == Init /\ [][NextDup]_vars

(***************************************************************************)
(* Records: two paths with one basename and a third file, marked with      *)
(* different chunk counts at different times.                              *)
(***************************************************************************)
RecPaths == {RawA, AltA, RawB}

RecContents(p) ==
    IF p = RawA THEN {<<0>>, <<1>>} ELSE IF p = AltA THEN {<<0, 0>>} ELSE {<<1>>}

ChunkCounts == 1..MaxChunks

Nows == 1..MaxNow

\* the two paths of a.txt are marked with every chunk count at every time,
\* b.pdf with one chunk at time 1
RecChunkCounts(p) == IF p = RawB THEN {1} ELSE ChunkCounts

RecNows(p) == IF p = RawB THEN {1} ELSE Nows

CallGetProcessedInfo(p) ==
    LET r == GetProcessedInfo(mem, p)
    IN  /\ last' = [op |-> "get_processed_info", path |-> p, out |-> "return",
                    found |-> r # None]
        /\ UNCHANGED <<fs, mem, disk, okSince, owner, staleSince, markOrder>>
        /\ UNCHANGED <<applied, mem2, writers, chunkerVars, driverVars>>

NextRec ==
    \/ \E p \in RecPaths : \E b \in RecContents(p) : WriteFile(p, b, 1)
    \/ \E p \in RecPaths : \E n \in RecChunkCounts(p), now \in RecNows(p) :
          CallMarkProcessed(p, n, now, TRUE, "ok")
    \/ \E p \in RecPaths : CallRemoveFile(p, "ok")
    \/ CallClearTracking("ok")
    \/ \E p \in RecPaths : CallGetProcessedInfo(p)

SpecRec == Init /\ [][NextRec]_vars

(***************************************************************************)
(* Two tracker instances over one tracking document: each keeps its own    *)
(* dict, loaded when it was constructed, and saves the whole of it.        *)
(***************************************************************************)
TwoPaths == {RawA, RawB}

\* FileTracker(tracking_file) for the second instance
Construct2 ==
    LET r == LoadTrackingData(disk, TRUE)
    IN  /\ mem2 # r.data
        /\ mem2' = r.data
        /\ last' = [op |-> "init", inst |-> 2, out |-> r.out]
        /\ UNCHANGED <<fs, mem, disk, okSince, owner, staleSince, markOrder>>
        /\ UNCHANGED <<applied, writers, chunkerVars, driverVars>>

\* mark_processed on the second instance
Call2MarkProcessed(p, chunks_count, now, io) ==
    LET r == MarkProcessed(mem2, fs, p, chunks_count, now, TRUE)
        s == SaveTrackingData(r.mem, disk, io)
        out == IF r.save THEN s.out ELSE r.out
    IN  /\ r.save \/ io = "ok"
        /\ mem2' = r.mem
        /\ disk' = IF r.save THEN s.disk ELSE disk
        /\ last' = [op |-> "mark_processed", inst |-> 2, path |-> p, out |-> out,
                    mutated |-> r.save]
        /\ applied' = IF out = "return"
                      THEN [applied EXCEPT ![Basename(p)] = DictGet(r.mem, Basename(p))]
                      ELSE applied
        /\ writers' = writers \cup {2}
        /\ UNCHANGED <<fs, mem, okSince, owner, staleSince, markOrder, chunkerVars, driverVars>>

\* remove_file on the second instance
Call2RemoveFile(p, io) ==
    LET r == RemoveFile(mem2, p)
        s == SaveTrackingData(r.mem, disk, io)
    IN  /\ r.save \/ io = "ok"
        /\ mem2' = r.mem
        /\ disk' = IF r.save THEN s.disk ELSE disk
        /\ last' = [op |-> "remove_file", inst |-> 2, path |-> p,
                    out |-> IF r.save THEN s.out ELSE "return", mutated |-> r.save]
        /\ applied' = [applied EXCEPT ![Basename(p)] = None]
        /\ writers' = writers \cup {2}
        /\ UNCHANGED <<fs, mem, okSince, owner, staleSince, markOrder, chunkerVars, driverVars>>

\* the ways a save ends here: written, or truncated by open and not written
TwoSaves == {"ok", "fail_write"}

NextTwo ==
    \/ \E p \in TwoPaths : WriteFile(p, <<0>>, 1)
    \/ \E p \in TwoPaths, io \in TwoSaves : CallMarkProcessed(p, 1, 1, TRUE, io)
    \/ \E p \in TwoPaths, io \in TwoSaves : CallRemoveFile(p, io)
    \/ \E io \in TwoSaves : CallClearTracking(io)
    \/ \E p \in TwoPaths, io \in TwoSaves : Call2MarkProcessed(p, 1, 1, io)
    \/ \E p \in TwoPaths, io \in TwoSaves : Call2RemoveFile(p, io)
    \/ Construct2

SpecTwo == Init /\ [][NextTwo]_vars

(***************************************************************************)
(* The chunker: a text, a TextChunker made with some chunk_size and        *)
(* chunk_overlap, and one call of _split_text on the text.                 *)
(***************************************************************************)
Alphabet == {"a", "b", " ", ".", "\n"}

\* an unbroken run of 25 characters, and the chunker of size 10 and overlap 2
LongRun == <<"a", "b", "c", "d", "e", "f", "g", "h", "i", "j", "k", "l", "m",
             "n", "o", "p", "q", "r", "s", "t", "u", "v", "w", "x", "y">>

\* three one-letter paragraphs, for the chunker of size 5 and overlap 0
Paragraphs == <<"A", "\n", "\n", "B", "\n", "\n", "C">>

Texts == UNION {[1..n -> Alphabet] : n \in 0..MaxLen} \cup {LongRun, Paragraphs}

Configs == ((2..MaxSize) \X (0..MaxOverlap)) \cup {<<10, 2>>, <<5, 0>>}

InitChunk ==
    /\ fs = [p \in AllPaths |-> NoFile]
    /\ mem = LoadTrackingData(NoDoc, TRUE).data
    /\ disk = NoDoc
    /\ last = Idle
    /\ okSince = {}
    /\ owner = [n \in Filenames |-> NoPath]
    /\ staleSince = {}
    /\ markOrder = <<>>
    /\ applied = [n \in Filenames |-> None]
    /\ mem2 = LoadTrackingData(NoDoc, TRUE).data
    /\ writers = {}
    /\ chunker = NoChunker
    /\ text \in Texts
    /\ chunks = NotCalled
    /\ NoCall
    /\ NoRun

trackerVars == <<fs, mem, disk, last, okSince, owner, staleSince, markOrder,
                 applied, mem2, writers>>

\* TextChunker(chunk_size, chunk_overlap)
NewChunker(chunk_size, chunk_overlap) ==
    LET r == TextChunkerInit(chunk_size, chunk_overlap)
    IN  /\ chunker = NoChunker
        /\ chunker' = IF r.out = "return" THEN r ELSE chunker
        /\ UNCHANGED <<text, chunks, callVars, trackerVars, driverVars>>

\* chunker._split_text(text)
CallSplitText ==
    /\ chunker # NoChunker
    /\ chunks = NotCalled
    /\ chunks' = SplitText(text, chunker.chunk_size, chunker.chunk_overlap)
    /\ UNCHANGED <<chunker, text, callVars, trackerVars, driverVars>>

NextChunk ==
    \/ \E cfg \in Configs : NewChunker(cfg[1], cfg[2])
    \/ CallSplitText

SpecChunk == InitChunk /\ [][NextChunk]_vars

(***************************************************************************)
(* One call of _split_text, turn by turn of its loops and call by call of  *)
(* its recursion.                                                          *)
(***************************************************************************)
StepAlphabet == {"a", " ", "."}

StepTexts == UNION {[1..n -> StepAlphabet] : n \in 0..MaxLen} \cup {LongRun, Paragraphs}

InitSteps ==
    /\ fs = [p \in AllPaths |-> NoFile]
    /\ mem = LoadTrackingData(NoDoc, TRUE).data
    /\ disk = NoDoc
    /\ last = Idle
    /\ okSince = {}
    /\ owner = [n \in Filenames |-> NoPath]
    /\ staleSince = {}
    /\ markOrder = <<>>
    /\ applied = [n \in Filenames |-> None]
    /\ mem2 = LoadTrackingData(NoDoc, TRUE).data
    /\ writers = {}
    /\ chunker = NoChunker
    /\ text = <<>>
    /\ chunks = NotCalled
    /\ NoCall
    /\ NoRun

\* chunker._split_text(t) is called: it returns at once, or the separator is
\* chosen and the loop begins
EnterSplitText(t) ==
    /\ chunker # NoChunker
    /\ chunks = NotCalled
    /\ stack = <<>>
    /\ text' = t
    /\ IF Len(t) <= chunker.chunk_size
       THEN chunks' = [out |-> "return", chunks |-> <<t>>] /\ stack' = stack
       ELSE chunks' = chunks /\ stack' = <<Frame(t)>>
    /\ UNCHANGED <<chunker, metadata, earlier, trackerVars, driverVars>>

StepStride ==
    /\ stack # <<>>
    /\ stack[Len(stack)].separator = <<>>
    /\ LET r == StrideTurn(stack, chunker.chunk_size, chunker.chunk_overlap)
       IN  stack' = r.stack /\ chunks' = r.chunks
    /\ UNCHANGED <<chunker, text, metadata, earlier, trackerVars, driverVars>>

StepPart ==
    /\ stack # <<>>
    /\ stack[Len(stack)].separator # <<>>
    /\ LET r == PartTurn(stack, chunker.chunk_size, chunker.chunk_overlap)
       IN  stack' = r.stack /\ chunks' = r.chunks
    /\ UNCHANGED <<chunker, text, metadata, earlier, trackerVars, driverVars>>

NextSteps ==
    \/ \E cfg \in Configs : NewChunker(cfg[1], cfg[2])
    \/ \E t \in StepTexts : EnterSplitText(t)
    \/ StepStride
    \/ StepPart

\* a call that was made goes on: nothing but the call itself is scheduled
SpecSteps == InitSteps /\ [][NextSteps]_vars /\ WF_vars(NextSteps)

(***************************************************************************)
(* Calls of chunk_text and _split_text on one TextChunker, one after the   *)
(* other, on texts and metadata the caller chooses.                        *)
(***************************************************************************)
\* texts of zero, one and several chunks
CallTexts == {<<>>, <<"a">>, <<"a", " ", "b">>, <<"a", "b", " ", "c", "d">>,
              <<"a", "b", "c", "d">>}

CallConfigs == {<<2, 0>>, <<3, 1>>, <<3, 3>>}

\* metadata: none, the keys chunk_file gives, and keys chunk_text sets itself
Metadatas == {None,
              [source |-> "f.md", file_path |-> "markdown/f.md"],
              [chunk_index |-> 7],
              [total_chunks |-> 0],
              [text |-> <<"x">>]}

InitCalls ==
    /\ fs = [p \in AllPaths |-> NoFile]
    /\ mem = LoadTrackingData(NoDoc, TRUE).data
    /\ disk = NoDoc
    /\ last = Idle
    /\ okSince = {}
    /\ owner = [n \in Filenames |-> NoPath]
    /\ staleSince = {}
    /\ markOrder = <<>>
    /\ applied = [n \in Filenames |-> None]
    /\ mem2 = LoadTrackingData(NoDoc, TRUE).data
    /\ writers = {}
    /\ chunker = NoChunker
    /\ text \in CallTexts
    /\ chunks = NotCalled
    /\ metadata \in Metadatas
    /\ earlier = None
    /\ stack = <<>>
    /\ NoRun

\* the caller takes the result of the call made and gets the arguments of the
\* next call ready; the history keeps the call made, or an earlier one
NextArguments(t, m, keep) ==
    /\ chunks # NotCalled
    /\ text' = t
    /\ metadata' = m
    /\ chunks' = NotCalled
    /\ earlier' = IF keep
                  THEN [text |-> text, metadata |-> metadata, returned |-> chunks]
                  ELSE earlier
    /\ UNCHANGED <<chunker, stack, trackerVars, driverVars>>

\* chunker.chunk_text(text, metadata): no attribute of the object is assigned
CallChunkTextResizes ==
    /\ chunker # NoChunker
    /\ chunks = NotCalled
    /\ chunks' = ChunkText(text, metadata, chunker.chunk_size, chunker.chunk_overlap)
    /\ chunker' = [chunker EXCEPT !.chunk_size = 1000]
    /\ UNCHANGED <<text, callVars, trackerVars, driverVars>>

CallChunkText ==
    /\ chunker # NoChunker
    /\ chunks = NotCalled
    /\ chunks' = ChunkText(text, metadata, chunker.chunk_size, chunker.chunk_overlap)
    /\ UNCHANGED <<chunker, text, callVars, trackerVars, driverVars>>

NextCalls ==
    \/ \E cfg \in CallConfigs : NewChunker(cfg[1], cfg[2])
    \/ CallSplitText
    \/ CallChunkText
    \/ \E t \in CallTexts, m \in Metadatas, keep \in BOOLEAN : NextArguments(t, m, keep)

SpecCalls == InitCalls /\ [][NextCalls]_vars

(***************************************************************************)
(* Properties of the tracker life cycle.                                   *)
(***************************************************************************)
Processed(p) == IsProcessed(mem, fs, p).val
Updated(p) == IsUpdated(mem, fs, p).val

StatDiffers(p) ==
    LET stored == DictGet(mem, Basename(p))
    IN  Len(fs[p].bytes) # stored.size \/ fs[p].mtime # stored.modified_time

\* C1 as stated: once mark_processed(f, n) has succeeded, and as long as f's
\* file has not changed and no remove_file or clear_tracking has dropped the
\* record, is_processed(f) is true and is_updated(f) is false.
C1_UnchangedStaysProcessed ==
    \A p \in Paths : p \in okSince => Processed(p) /\ ~Updated(p)

\* C1 (amended): the same, as long as, besides that, no mark_processed on
\* another path with the same basename has rewritten the record.
C1_UnchangedStaysProcessedUnlessRewritten ==
    \A p \in Paths :
        p \in okSince /\ owner[Basename(p)] = p => Processed(p) /\ ~Updated(p)

\* an is_processed call on a file marked earlier and untouched since, made
\* after other calls on the tracker
C1_Witness ==
    /\ last.op = "is_processed"
    /\ last.val
    /\ last.path \in okSince
    /\ owner[Basename(last.path)] = last.path
    /\ Len(mem) = 2

\* C2 as stated: once the size or the modification time of a file with a
\* record has changed, and until the next successful mark_processed(f, n),
\* is_processed(f) is false and is_updated(f) is true whenever f can be
\* stat'ed; right after a successful mark_processed(f, n), is_processed(f)
\* is true and is_updated(f) is false.
C2_ChangedStaysUpdated ==
    /\ \A p \in Paths : p \in staleSince /\ fs[p].exists => ~Processed(p) /\ Updated(p)
    /\ last.op = "mark_processed" /\ last.out = "return"
          => Processed(last.path) /\ ~Updated(last.path)

\* C2 (amended): after such a change, while the filename has a record and the
\* file's size or modification time differs from the stored one,
\* is_processed(f) is false and is_updated(f) is true; when the record is gone
\* both are false, and when size and modification time equal the stored ones
\* again is_processed(f) is true and is_updated(f) false; right after a
\* successful mark_processed(f, n), is_processed(f) is true and is_updated(f)
\* is false.
C2_ChangedIsUpdatedWhileRecordDiffers ==
    /\ \A p \in Paths :
          p \in staleSince /\ fs[p].exists =>
              IF ~DictHas(mem, Basename(p)) THEN ~Processed(p) /\ ~Updated(p)
              ELSE IF StatDiffers(p) THEN ~Processed(p) /\ Updated(p)
              ELSE Processed(p) /\ ~Updated(p)
    /\ last.op = "mark_processed" /\ last.out = "return"
          => Processed(last.path) /\ ~Updated(last.path)

\* a file with a record whose modification time alone has changed, asked for
C2_Witness ==
    /\ last.op = "is_updated"
    /\ last.val
    /\ last.path \in staleSince
    /\ Len(fs[last.path].bytes) = DictGet(mem, Basename(last.path)).size

\* C3: is_processed and is_updated are never both true; without a record both
\* are false; with a record and a file that can be stat'ed exactly one is true.
C3_ProcessedUpdatedExclusive ==
    \A p \in Paths :
        /\ ~(Processed(p) /\ Updated(p))
        /\ ~DictHas(mem, Basename(p)) => ~Processed(p) /\ ~Updated(p)
        /\ DictHas(mem, Basename(p)) /\ fs[p].exists => (Processed(p) # Updated(p))

\* a tracked file whose size is the stored one and whose mtime is not
C3_Witness ==
    \E p \in Paths :
        /\ DictHas(mem, Basename(p))
        /\ fs[p].exists
        /\ Len(fs[p].bytes) = DictGet(mem, Basename(p)).size
        /\ fs[p].mtime # DictGet(mem, Basename(p)).modified_time

\* C5: a mark_processed call that fails in os.stat or in hashing leaves the
\* dict of the instance and the persisted document as they were.
C5_FailedMarkLeavesStore ==
    [][last'.op = "mark_processed" /\ last'.out = "raise" /\ last'.why \in {"stat", "hash"}
          => mem' = mem /\ disk' = disk]_vars

\* hashing has failed for a file that has an earlier record, beside the
\* record of another file
C5_Witness ==
    /\ last.op = "mark_processed"
    /\ last.out = "raise"
    /\ last.why = "hash"
    /\ DictHas(mem, Basename(last.path))
    /\ Len(mem) = 2

\* C7: is_processed and is_updated of a file that cannot be stat'ed return
\* false, raise nothing and change neither the dict nor the document.
C7_UnreadableIsNotProcessed ==
    [][last'.op \in {"is_processed", "is_updated"} /\ ~fs[last'.path].exists
          => /\ last'.out = "return"
             /\ last'.val = FALSE
             /\ mem' = mem
             /\ disk' = disk]_vars

\* is_updated of a deleted file whose filename has a record
C7_Witness ==
    /\ last.op = "is_updated"
    /\ ~fs[last.path].exists
    /\ DictHas(mem, Basename(last.path))

(***************************************************************************)
(* Properties of persistence (SpecIO).                                     *)
(***************************************************************************)
Mutators == {"mark_processed", "remove_file", "clear_tracking"}

\* C4: after every return, normal or by exception, of a call that changed the
\* dict, the persisted document decodes to exactly the dict of the instance.
C4_DocumentMatchesMemory ==
    last.op \in Mutators /\ last.mutated =>
        /\ disk.kind \in {"missing", "json"}
        /\ LoadTrackingData(disk, TRUE).data = mem

\* C6: constructing a tracker over a document that cannot be decoded never
\* raises and gives an empty store (nothing processed, nothing updated, zero
\* files); the first mark_processed after it rewrites the document with the
\* one record made since.
C6_CorruptDocumentGivesEmptyStore ==
    [][/\ last'.op = "init" /\ last'.doc \in {"badjson", "badutf8"}
          => /\ last'.out = "return"
             /\ mem' = EmptyDict
             /\ GetStats(mem').total_files = 0
             /\ \A p \in IOPaths : ~IsProcessed(mem', fs', p).val /\ ~IsUpdated(mem', fs', p).val
       /\ /\ last.op = "init" /\ last.doc \in {"badjson", "badutf8"} /\ last.out = "return"
          /\ last'.op = "mark_processed" /\ last'.out = "return"
          => /\ DictKeys(mem') = {Basename(last'.path)}
             /\ disk' = JsonDump(mem')]_vars

(***************************************************************************)
(* Properties of duplicate detection (SpecDup).                            *)
(***************************************************************************)
\* the digest of the bytes of the file at p
DigestOf(p) == <<"sha256", ReadBlocks(0, fs[p].bytes)>>

\* the filenames other than p's own whose record holds the digest of p's bytes
Candidates(p) ==
    {n \in DictKeys(mem) : n # Basename(p) /\ DictGet(mem, n).content_hash = DigestOf(p)}

FirstOf(seq, S) == seq[CHOOSE i \in DOMAIN seq :
                          seq[i] \in S /\ \A j \in 1..(i - 1) : seq[j] \notin S]

\* filenames in lexicographic order: a.txt < b.pdf < c.md
SortedFilenames == <<FileA, FileB, FileC>>

FoundFor(p) == last.op = "find_duplicate_by_hash" /\ last.path = p /\ last.readOk /\ fs[p].exists

\* C8: for a file whose bytes are read, find_duplicate_by_hash returns a
\* filename only if it is another filename whose stored content_hash is the
\* digest of the file's bytes; it returns None exactly when no other record
\* has that digest; and among several such records it returns the one whose
\* record was created first by mark_processed, wherever the other records are.
C8_DuplicateIsFirstMarked ==
    \A p \in DupPaths :
        FoundFor(p) =>
            /\ last.out = "return"
            /\ (last.dup = None) <=> (Candidates(p) = {})
            /\ last.dup # None =>
                  /\ last.dup[1] \in Candidates(p)
                  /\ last.dup[1] = FirstOf(markOrder, Candidates(p))
                  /\ last.dup[2] = SplitExt(last.dup[1])

\* c.md is asked for; a.txt and b.pdf hold its digest, b.pdf marked first
C8_Witness ==
    /\ FoundFor(RawC)
    /\ Candidates(RawC) = {FileA, FileB}
    /\ markOrder[1] = FileB
    /\ last.dup[1] = FileB

ReadFailed(l, f) == ~l.readOk \/ ~f[l.path].exists

RecordOf(p, chunks_count, now) ==
    [size           |-> Len(fs[p].bytes),
     modified_time  |-> fs[p].mtime,
     modified_date  |-> IsoFormat(fs[p].mtime),
     processed_date |-> IsoFormat(now),
     chunks_count   |-> chunks_count,
     content_hash   |-> DigestOf(p)]

RecordsFor(d, filename) == {i \in DOMAIN d : d[i].k = filename}

\* C11: a mark_processed call that follows a successful mark_processed call
\* on the same path, the file being the same, stores the content_hash, size
\* and modified_time the first one stored, whatever the time and the chunk
\* count are, and the dict holds one record for the filename.
C11_MarkTwiceStoresSameStat ==
    [][last'.op = "mark_processed" /\ last'.out = "return" /\ last'.again
          => LET filename == Basename(last'.path)
                 first == DictGet(mem, filename)
                 second == DictGet(mem', filename)
             IN  /\ second.content_hash = first.content_hash
                 /\ second.size = first.size
                 /\ second.modified_time = first.modified_time
                 /\ Cardinality(RecordsFor(mem', filename)) = 1]_vars

\* the second of two calls in a row, at another time and with another chunk
\* count than the first, beside the record of another file
C11_Witness ==
    /\ last.op = "mark_processed"
    /\ last.out = "return"
    /\ last.again
    /\ last.now = 2
    /\ last.chunks_count = 2
    /\ applied[Basename(last.path)].chunks_count = 2
    /\ Len(mem) = 2

\* C12: the dict holds at most one record per basename; a successful
\* mark_processed(path, n) leaves under basename(path) the record made of the
\* file's current stat and digest, the time and n, whatever record was there
\* and whichever path had written it, and leaves the records of all other
\* filenames as they were.
C12_MarkReplacesWholeRecord ==
    [][/\ \A n \in Filenames : Cardinality(RecordsFor(mem', n)) <= 1
       /\ last'.op = "mark_processed" /\ last'.out = "return"
          => LET filename == Basename(last'.path)
             IN  /\ DictGet(mem', filename)
                        = RecordOf(last'.path, last'.chunks_count, last'.now)
                 /\ \A n \in Filenames \ {filename} :
                        /\ DictHas(mem', n) <=> DictHas(mem, n)
                        /\ DictHas(mem, n) => DictGet(mem', n) = DictGet(mem, n)]_vars

\* alt/a.txt is marked over the record raw/a.txt wrote at another time with
\* another chunk count, beside the record of b.pdf
C12_Witness ==
    /\ last.op = "mark_processed"
    /\ last.out = "return"
    /\ last.path = AltA
    /\ last.now = 2
    /\ last.chunks_count = 1
    /\ RawA \in okSince
    /\ DictHas(mem, FileB)
    /\ Len(mem) = 2

\* C13: get_processed_info(n) returns a record exactly when a mark_processed
\* call on a path with basename n has succeeded and neither remove_file on
\* that basename nor clear_tracking has been called since; remove_file drops
\* that one record and no other, remove_file of a name without a record
\* changes nothing, and after clear_tracking get_stats counts zero files and
\* zero chunks.
C13_RecordLivesFromMarkToRemoval ==
    [][/\ \A p \in AllPaths :
             (GetProcessedInfo(mem', p) # None) <=> (applied'[Basename(p)] # None)
       /\ last'.op = "remove_file"
          => /\ ~DictHas(mem', Basename(last'.path))
             /\ \A n \in Filenames \ {Basename(last'.path)} :
                    /\ DictHas(mem', n) <=> DictHas(mem, n)
                    /\ DictHas(mem, n) => DictGet(mem', n) = DictGet(mem, n)
             /\ ~DictHas(mem, Basename(last'.path)) => mem' = mem /\ disk' = disk
       /\ last'.op = "clear_tracking"
          => GetStats(mem') = [total_files |-> 0, total_chunks |-> 0]]_vars

(***************************************************************************)
(* Properties of the fast path (Spec).                                     *)
(***************************************************************************)
\* C14: for a file that can be stat'ed and whose basename has a record,
\* is_processed is true if and only if the file's size and modification time
\* both equal the stored ones, whatever its bytes are: a file whose content
\* has changed with size and modification time kept is reported processed and
\* not updated.
C14_ProcessedIffStatEqual ==
    \A p \in Paths :
        DictHas(mem, Basename(p)) /\ fs[p].exists =>
            /\ Processed(p) <=> ~StatDiffers(p)
            /\ ~StatDiffers(p) => ~Updated(p)

\* is_processed has answered true for a file whose digest is no longer the
\* stored one
C14_Witness ==
    /\ last.op = "is_processed"
    /\ last.val
    /\ fs[last.path].exists
    /\ DictGet(mem, Basename(last.path)).content_hash # DigestOf(last.path)
    /\ Len(fs[last.path].bytes) = DictGet(mem, Basename(last.path)).size

(***************************************************************************)
(* Properties of two instances over one document (SpecTwo).                *)
(***************************************************************************)
\* the document decodes, and what it holds for every filename is what the
\* calls made so far, applied one after the other, leave for it
DocumentIsCallsInOrder ==
    /\ disk.kind \in {"missing", "json"}
    /\ \A p \in TwoPaths :
           GetProcessedInfo(LoadTrackingData(disk, TRUE).data, p) = applied[Basename(p)]

\* the lost update: after a save of one instance the document lacks a record
\* the other instance wrote, or holds one the other instance removed
LostUpdate ==
    /\ last.op \in Mutators
    /\ last.out = "return"
    /\ last.mutated
    /\ disk.kind = "json"
    /\ \E p \in TwoPaths :
           GetProcessedInfo(LoadTrackingData(disk, TRUE).data, p) # applied[Basename(p)]

\* C15: a save of an instance writes the whole dict of that instance, so that
\* with two instances saving, a record the other one wrote can be erased and
\* one it removed restored; as long as the mutating calls all go through one
\* instance, after each of them the document is what the calls made so far,
\* applied in their order, give.
C15_SingleOwnerPersistsCallsInOrder ==
    /\ last.op \in Mutators /\ last.out = "return" /\ last.mutated
          => disk = JsonDump(IF "inst" \in DOMAIN last THEN mem2 ELSE mem)
    /\ last.op \in Mutators /\ Cardinality(writers) <= 1
          => DocumentIsCallsInOrder

(***************************************************************************)
(* Properties of the chunker (SpecChunk).                                  *)
(***************************************************************************)
Returned == chunks.out = "return"

\* C16: no TextChunker object has a chunk_overlap that is not below its
\* chunk_size, so that no call of _split_text raises because of a stride of 0
\* or returns no chunk for a text because of a negative one.
C16_OverlapNotBelowSizeIsRejected ==
    /\ chunker # NoChunker => chunker.chunk_overlap < chunker.chunk_size
    /\ chunks.out # "raise"
    /\ Returned => chunks.chunks # <<>>

\* C17: with chunk_overlap = 0 every chunk _split_text returns is at most
\* chunk_size characters long.
C17_ChunksWithinChunkSize ==
    Returned /\ chunker.chunk_overlap = 0 =>
        \A i \in DOMAIN chunks.chunks : Len(chunks.chunks[i]) <= chunker.chunk_size

\* the characters of the separators and the whitespace, which may be dropped
\* between two chunks
Trimmable == Whitespace \cup {".", "!", "?"}

\* the chunks from the i-th on are pieces of t found one after the other from
\* position pos on, and what lies between them and after them is trimmable
RECURSIVE PiecesInOrder(_, _, _, _)
PiecesInOrder(cs, i, t, pos) ==
    IF i > Len(cs)
    THEN \A j \in pos..Len(t) : t[j] \in Trimmable
    ELSE \E start \in pos..(Len(t) + 1) :
            /\ \A j \in pos..(start - 1) : t[j] \in Trimmable
            /\ StartsAt(t, cs[i], start)
            /\ PiecesInOrder(cs, i + 1, t, start + Len(cs[i]))

\* C18: with chunk_overlap = 0 the chunks _split_text returns are contiguous
\* pieces of the text, in its order and without a character of their own, and
\* the characters of the text outside them are separator and whitespace
\* characters.
C18_ChunksReproduceText ==
    Returned /\ chunker.chunk_overlap = 0 => PiecesInOrder(chunks.chunks, 1, text, 1)

\* the chunks of _split_text before any overlap prefix: the parts merged up
\* to chunk_size, an oversized part split again, the slices of the last
\* resort at the stride chunk_size - chunk_overlap
RECURSIVE PreOverlapChunks(_, _, _)
RECURSIVE PreOverlapParts(_, _, _, _, _, _, _)
PreOverlapParts(parts, i, current_chunk, cs, separator, chunk_size, chunk_overlap) ==
    IF i > Len(parts)
    THEN IF current_chunk # <<>> THEN Append(cs, Strip(current_chunk)) ELSE cs
    ELSE LET part == parts[i]
             flushed == IF current_chunk # <<>> THEN Append(cs, Strip(current_chunk)) ELSE cs
         IN  IF Len(current_chunk) + Len(part) + Len(separator) <= chunk_size
             THEN PreOverlapParts(parts, i + 1, current_chunk \o part \o separator, cs,
                                  separator, chunk_size, chunk_overlap)
             ELSE IF Len(part) > chunk_size
             THEN PreOverlapParts(parts, i + 1, <<>>,
                                  flushed \o PreOverlapChunks(part, chunk_size, chunk_overlap),
                                  separator, chunk_size, chunk_overlap)
             ELSE PreOverlapParts(parts, i + 1, part \o separator, flushed,
                                  separator, chunk_size, chunk_overlap)

PreOverlapChunks(t, chunk_size, chunk_overlap) ==
    IF Len(t) <= chunk_size THEN <<t>>
    ELSE IF FirstSeparator(t) = <<>>
    THEN StrideSlices(t, 0, chunk_size, chunk_size - chunk_overlap)
    ELSE PreOverlapParts(StrSplit(t, FirstSeparator(t)), 1, <<>>, <<>>,
                         FirstSeparator(t), chunk_size, chunk_overlap)

\* the last n characters of t, all of t when it has fewer
LastChars(t, n) == IF Len(t) > n THEN SubSeq(t, Len(t) - n + 1, Len(t)) ELSE t

PositiveStride == chunker.chunk_overlap < chunker.chunk_size

\* C19: with chunk_overlap > 0 and more than one chunk, the first chunk
\* returned is the first chunk before the overlap, and every later one is the
\* last chunk_overlap characters of the chunk before it as it was before the
\* overlap, a space, and the chunk itself as it was before the overlap: one
\* prefix per chunk, for the chunks of an oversized part split again as well.
C19_OverlapPrefixedOnce ==
    Returned /\ chunker.chunk_overlap > 0 /\ PositiveStride /\ Len(chunks.chunks) > 1 =>
        LET pre == PreOverlapChunks(text, chunker.chunk_size, chunker.chunk_overlap)
        IN  /\ Len(chunks.chunks) = Len(pre)
            /\ chunks.chunks[1] = pre[1]
            /\ \A i \in 2..Len(pre) :
                   chunks.chunks[i] = LastChars(pre[i - 1], chunker.chunk_overlap)
                                         \o <<" ">> \o pre[i]

Unbroken(t) == \A i \in DOMAIN t : t[i] \notin Trimmable

\* C20: for a text longer than chunk_size without any separator character,
\* _split_text returns slices of the text of at most chunk_size characters,
\* the k-th starting k * (chunk_size - chunk_overlap) characters into the
\* text, that cover the text, each two in a row sharing exactly chunk_overlap
\* characters of it.
C20_FixedStrideSlices ==
    Returned /\ PositiveStride /\ Unbroken(text) /\ Len(text) > chunker.chunk_size =>
        LET stride == chunker.chunk_size - chunker.chunk_overlap
            cs == chunks.chunks
        IN  /\ cs # <<>>
            /\ \A k \in DOMAIN cs :
                   /\ Len(cs[k]) <= chunker.chunk_size
                   /\ cs[k] = Slice(text, (k - 1) * stride, chunker.chunk_size)
            /\ (Len(cs) - 1) * stride + Len(cs[Len(cs)]) = Len(text)
            /\ \A k \in 1..(Len(cs) - 1) :
                   (k - 1) * stride + Len(cs[k]) - k * stride = chunker.chunk_overlap

\* parts[i], ..., parts[j], each followed by the separator
RECURSIVE JoinFrom(_, _, _, _)
JoinFrom(parts, i, j, separator) ==
    IF i > j THEN <<>>
    ELSE parts[i] \o separator \o JoinFrom(parts, i + 1, j, separator)

\* the last part of the longest run of parts from the i-th on that, each
\* followed by the separator, is within size; the i-th when not even it is
LastThatFits(parts, i, separator, size) ==
    LET fits == {j \in i..Len(parts) : Len(JoinFrom(parts, i, j, separator)) <= size}
    IN  IF fits = {} THEN i ELSE CHOOSE j \in fits : \A k \in fits : k <= j

\* the parts packed in order, each chunk taking as many parts as fit
RECURSIVE GreedyPack(_, _, _, _)
GreedyPack(parts, i, separator, size) ==
    IF i > Len(parts) THEN <<>>
    ELSE LET j == LastThatFits(parts, i, separator, size)
         IN  <<Strip(JoinFrom(parts, i, j, separator))>>
                 \o GreedyPack(parts, j + 1, separator, size)

PartsFit(t, size) ==
    /\ Len(t) > size
    /\ FirstSeparator(t) # <<>>
    /\ \A i \in DOMAIN StrSplit(t, FirstSeparator(t)) :
           Len(StrSplit(t, FirstSeparator(t))[i]) <= size

\* C22: with chunk_overlap = 0, for a text longer than chunk_size whose first
\* separator that occurs splits it into parts of at most chunk_size each,
\* _split_text returns the parts packed greedily in order: a part joins the
\* chunk being built while chunk, part and separator are within chunk_size
\* together, else the chunk is ended, stripped, and the part starts the next.
C22_PartsPackedGreedily ==
    Returned /\ chunker.chunk_overlap = 0 /\ PartsFit(text, chunker.chunk_size) =>
        chunks.chunks = GreedyPack(StrSplit(text, FirstSeparator(text)), 1,
                                   FirstSeparator(text), chunker.chunk_size)

\* the chunker of size 5 gives the three paragraphs as three chunks
C22_Witness ==
    /\ Returned
    /\ chunker.chunk_size = 5 /\ chunker.chunk_overlap = 0
    /\ text = Paragraphs
    /\ PartsFit(text, chunker.chunk_size)
    /\ chunks.chunks = << <<"A">>, <<"B">>, <<"C">> >>

(***************************************************************************)
(* The driver: runs of scripts/process_documents.py one after the other    *)
(* over the raw directory, with files written to the directory at any      *)
(* time, the configuration valid and no download configured. The tracking  *)
(* document is written without failure.                                    *)
(***************************************************************************)
DriverPaths == {RawA, RawB}

DriverContents == {<<0>>, <<1>>}

\* os.listdir gives the names in any order
Listings(S) ==
    {l \in [1..Cardinality(S) -> S] : \A i, j \in DOMAIN l : i # j => l[i] # l[j]}

\* no two records have the same content_hash
HashUnique(d) ==
    \A i, j \in DOMAIN d : i # j => d[i].v.content_hash # d[j].v.content_hash

RunOver == run.pc \in {"none", "done", "crashed", "cleared"}

\* "if parsed_count == 0: ... return"
PcAfterLoop(parsed_count) == IF parsed_count = 0 THEN "done" ELSE "chunk"

NewRun(d) ==
    [hist EXCEPT !.runs = @ + 1,
                 !.extracted = [p \in AllPaths |-> NoFile],
                 !.added = FALSE,
                 !.marked = {},
                 !.failed = {},
                 !.unique = HashUnique(d)]

\* a file of the raw directory is written: downloaded again, or edited
DriverWrite(p, bytes, mtime) ==
    /\ hist.writes < MaxWrites
    /\ fs[p] # File(bytes, mtime)
    /\ fs' = [fs EXCEPT ![p] = File(bytes, mtime)]
    /\ hist' = [hist EXCEPT !.writes = @ + 1, !.clean = {}]
    /\ UNCHANGED <<mem, disk, last, okSince, owner, staleSince, markOrder, applied,
                   mem2, writers, chunkerVars, store, md, run>>

\* main() up to the parse loop: FileTracker() loads the tracking document
DriverStart(force, listing) ==
    /\ RunOver
    /\ hist.runs < MaxRuns
    /\ listing \in Listings({p \in DriverPaths : fs[p].exists})
    /\ mem' = LoadTrackingData(disk, TRUE).data
    /\ run' = IF listing = <<>>
              THEN [Locals(force, listing) EXCEPT !.pc = PcAfterLoop(0)]
              ELSE Locals(force, listing)
    /\ hist' = NewRun(mem')
    /\ UNCHANGED <<fs, disk, last, okSince, owner, staleSince, markOrder, applied,
                   mem2, writers, chunkerVars, store, md>>

\* main() with --clear-tracking
DriverClearTracking ==
    /\ RunOver
    /\ hist.runs < MaxRuns
    /\ mem' = ClearTracking(LoadTrackingData(disk, TRUE).data).mem
    /\ disk' = SaveTrackingData(mem', disk, "ok").disk
    /\ run' = [pc |-> "cleared"]
    /\ hist' = [NewRun(mem') EXCEPT !.clean = {}]
    /\ UNCHANGED <<fs, last, okSince, owner, staleSince, markOrder, applied,
                   mem2, writers, chunkerVars, store, md>>

\* one turn of the parse loop, and after the last one the test of parsed_count
DriverScan(readOk, parseOk) ==
    /\ run.pc = "scan"
    /\ LET p == Head(run.listing)
           filename == Basename(p)
           md_filename == MdFilename(filename)
           r == ScanFile(mem, fs, p, run.force, readOk, parseOk)
           parsed == r.kind = "parsed"
           turn == [run EXCEPT
                       !.listing = Tail(@),
                       !.skipped_count = IF r.kind \in {"processed", "duplicate"}
                                         THEN @ + 1 ELSE @,
                       !.duplicate_count = IF r.kind = "duplicate" THEN @ + 1 ELSE @,
                       !.updated_count = IF r.is_update THEN @ + 1 ELSE @,
                       !.parsed_count = IF parsed THEN @ + 1 ELSE @,
                       !.files_to_process = IF parsed THEN Append(@, <<p, md_filename>>)
                                            ELSE @,
                       !.files_to_update = IF parsed /\ r.is_update
                                           THEN Append(@, filename) ELSE @]
       IN  /\ run' = [turn EXCEPT !.pc = IF turn.listing = <<>>
                                         THEN PcAfterLoop(turn.parsed_count)
                                         ELSE "scan"]
           /\ md' = IF parsed THEN [md EXCEPT ![md_filename] = r.content] ELSE md
           /\ hist' = [hist EXCEPT
                          !.extracted[p] = IF parsed THEN fs[p] ELSE @,
                          !.failed = IF r.kind = "failed" THEN @ \cup {p} ELSE @]
    /\ UNCHANGED <<fs, mem, disk, last, okSince, owner, staleSince, markOrder, applied,
                   mem2, writers, chunkerVars, store>>

\* "Step 3: Chunk documents", and "if not chunks: return"
DriverChunk(unreadable) ==
    /\ run.pc = "chunk"
    /\ LET r == ChunkFiles(run.files_to_process, 1, md, unreadable, <<>>, EmptyDict)
       IN  run' = [run EXCEPT !.chunks = r.chunks,
                              !.file_chunks_map = r.file_chunks_map,
                              !.pc = IF r.chunks = <<>> THEN "done" ELSE "embed"]
    /\ UNCHANGED <<fs, mem, disk, last, okSince, owner, staleSince, markOrder, applied,
                   mem2, writers, chunkerVars, store, md, hist>>

\* "Step 4: Generate embeddings": the run ends when no embedding is valid,
\* and the chunks without a valid one are dropped
DriverEmbed(outcome) ==
    /\ run.pc = "embed"
    /\ LET valid == ValidChunks(run.chunks, Embeddings(run.chunks, outcome))
       IN  run' = IF valid = <<>>
                  THEN [run EXCEPT !.pc = "done"]
                  ELSE [run EXCEPT !.pc = "store", !.chunks = valid]
    /\ UNCHANGED <<fs, mem, disk, last, okSince, owner, staleSince, markOrder, applied,
                   mem2, writers, chunkerVars, store, md, hist>>

\* "Step 5: Store in ChromaDB": the old versions of the updated files are
\* deleted, then the chunks are added
DriverStore(outcome) ==
    /\ run.pc = "store"
    /\ store' = CASE outcome = "fail_connect" -> store
                  [] outcome = "fail_add" ->
                         DeleteOldVersions(store, run.files_to_update, 1)
                  [] outcome = "ok" ->
                         AddDocuments(DeleteOldVersions(store, run.files_to_update, 1),
                                      run.chunks, hist.runs)
    /\ run' = [run EXCEPT !.pc = AfterStore(outcome)]
    /\ hist' = [hist EXCEPT !.added = (outcome = "ok")]
    /\ UNCHANGED <<fs, mem, disk, last, okSince, owner, staleSince, markOrder, applied,
                   mem2, writers, chunkerVars, md>>

\* one turn of "for raw_path in file_chunks_map": mark_processed is called
\* and its exception is not caught
DriverMark(readOk) ==
    /\ run.pc = "mark"
    /\ LET raw_path == run.file_chunks_map[run.marking].k
           chunks_count == run.file_chunks_map[run.marking].v
           r == MarkProcessed(mem, fs, raw_path, chunks_count, hist.runs, readOk)
       IN  IF r.out = "raise"
           THEN /\ run' = [run EXCEPT !.pc = "crashed"]
                /\ hist' = [hist EXCEPT !.failed = @ \cup {raw_path}]
                /\ UNCHANGED <<mem, disk>>
           ELSE /\ mem' = r.mem
                /\ disk' = SaveTrackingData(r.mem, disk, "ok").disk
                /\ run' = [run EXCEPT
                              !.marking = @ + 1,
                              !.pc = IF run.marking = Len(run.file_chunks_map)
                                     THEN "done" ELSE "mark"]
                /\ hist' = [hist EXCEPT
                               !.marked = @ \cup {raw_path},
                               !.clean = IF run.force THEN @ ELSE @ \cup {raw_path}]
    /\ UNCHANGED <<fs, last, okSince, owner, staleSince, markOrder, applied,
                   mem2, writers, chunkerVars, store, md>>

NextDriver ==
    \/ \E p \in DriverPaths, bytes \in DriverContents, mtime \in Mtimes :
           DriverWrite(p, bytes, mtime)
    \/ \E force \in BOOLEAN, listing \in Listings({p \in DriverPaths : fs[p].exists}) :
           DriverStart(force, listing)
    \/ DriverClearTracking
    \/ \E readOk \in BOOLEAN, parseOk \in BOOLEAN : DriverScan(readOk, parseOk)
    \/ \E unreadable \in SUBSET MdNames : DriverChunk(unreadable)
    \/ \E outcome \in EmbedOutcomes : DriverEmbed(outcome)
    \/ \E outcome \in StoreOutcomes : DriverStore(outcome)
    \/ \E readOk \in BOOLEAN : DriverMark(readOk)

SpecDriver == Init /\ [][NextDriver]_vars

(***************************************************************************)
(* Termination of _split_text (SpecSteps).                                 *)
(***************************************************************************)
Ended == chunks # NotCalled

\* the turns left in the loop of a frame
TurnsLeft(frame) ==
    IF frame.separator = <<>>
    THEN IF frame.i < Len(frame.t) THEN Len(frame.t) - frame.i ELSE 0
    ELSE Len(frame.parts) + 1 - frame.i

\* a step of a running call: a turn of the loop on top leaves fewer turns in
\* it, a recursive call is on a text shorter than the text of its caller,
\* and a return takes the caller to its next turn
StepGetsCloser ==
    stack # <<>> /\ stack' # stack =>
        LET n == Len(stack)
        IN  \/ stack' = <<>>
            \/ /\ Len(stack') = n
               /\ SubSeq(stack', 1, n - 1) = SubSeq(stack, 1, n - 1)
               /\ TurnsLeft(stack'[n]) < TurnsLeft(stack[n])
               /\ TurnsLeft(stack'[n]) >= 0
            \/ /\ Len(stack') = n + 1
               /\ TurnsLeft(stack'[n]) = TurnsLeft(stack[n])
               /\ Len(stack'[n + 1].t) < Len(stack[n].t)
            \/ /\ Len(stack') = n - 1
               /\ TurnsLeft(stack'[n - 1]) < TurnsLeft(stack[n - 1])
               /\ TurnsLeft(stack'[n - 1]) >= 0

\* C23: every call of _split_text ends, by returning or by raising, for every
\* text and every chunk_size and chunk_overlap a TextChunker can be made
\* with: every step of the call brings it closer to its end, and its end comes.
C23_SplitTextTerminates ==
    /\ [][StepGetsCloser]_vars
    /\ <>Ended

\* a call that went through a recursive call and the last-resort loop has ended
C23_Witness ==
    /\ Ended
    /\ chunks.out = "return"
    /\ Len(text) > chunker.chunk_size
    /\ FirstSeparator(text) # <<>>
    /\ \E i \in DOMAIN StrSplit(text, FirstSeparator(text)) :
           Len(StrSplit(text, FirstSeparator(text))[i]) > chunker.chunk_size

\* the call made turn by turn returns what SplitText gives
StepsAgreeWithSplitText ==
    Ended => chunks = SplitText(text, chunker.chunk_size, chunker.chunk_overlap)

(***************************************************************************)
(* Properties of the driver (SpecDriver).                                  *)
(***************************************************************************)
RunEnded == run.pc \in {"done", "crashed"}

\* a step that creates or changes a tracking record, other than the command
\* --clear-tracking
TrackingChanged == (mem' # mem \/ disk' # disk) /\ run'.pc # "cleared"

\* such a step is a turn of the mark loop, taken after the chunks of the run
\* were added to the vector store, for a file the run has parsed; and a run
\* whose chunks were not added has marked nothing
MarkFollowsIndexing ==
    /\ TrackingChanged =>
           /\ run.pc = "mark"
           /\ hist.added
           /\ hist'.marked # hist.marked
           /\ \A p \in hist'.marked \ hist.marked : hist.extracted[p] # NoFile
    /\ ~hist'.added => hist'.marked = {}

\* C25: mark_processed is called for a file only after the file was parsed in
\* this run and after the chunks of the run were added to the vector store;
\* a run that ends before that (nothing parsed, no chunk, no valid embedding,
\* a failure of the vector store) creates and changes no tracking record.
C25_MarkOnlyAfterIndexing == [][MarkFollowsIndexing]_vars

C25_Witness ==
    /\ run.pc = "done"
    /\ hist.added
    /\ Cardinality(hist.marked) = 2
    /\ Len(mem) = 2

\* a run with a parsed file that ended before the vector store was written
C25_WitnessEndsBefore ==
    /\ RunEnded
    /\ ~hist.added
    /\ run.parsed_count > 0
    /\ run.listing = <<>>

\* C26: when the extraction or the hashing of a file fails, the run goes on:
\* at its end every file that was parsed and indexed in it, and whose
\* extraction and hashing did not fail, is marked processed.
C26_FailedFileSkippedOthersMarked ==
    RunEnded /\ hist.added =>
        \A p \in DriverPaths :
            hist.extracted[p] # NoFile /\ p \notin hist.failed => p \in hist.marked

\* C27: once a run has added its chunks, the vector store holds, for every
\* file the run reprocessed as updated, no chunk of an earlier run.
C27_OnlyCurrentVersionStored ==
    run.pc \in {"mark", "done"} /\ hist.added =>
        \A i \in DOMAIN run.files_to_update :
            \A k \in DOMAIN store :
                store[k].chunk.source = MdFilename(run.files_to_update[i])
                    => store[k].id[1] = hist.runs

\* every file of the raw directory was marked by a run without --force and
\* none was written since
AllClean == {p \in DriverPaths : fs[p].exists} \subseteq hist.clean

\* a turn of the parse loop of a run without --force for a file marked by a
\* run without --force, no file written since, skips the file; and such a run
\* over a directory of such files only changes neither store
SkipsUnchanged ==
    /\ run.pc = "scan" /\ run' # run /\ ~run.force /\ Head(run.listing) \in hist.clean =>
           /\ run'.skipped_count = run.skipped_count + 1
           /\ run'.parsed_count = run.parsed_count
           /\ run'.files_to_process = run.files_to_process
           /\ UNCHANGED <<mem, disk, store, md>>
    /\ ~RunOver /\ ~run.force /\ AllClean => UNCHANGED <<mem, disk, store>>

C29_RecordIsOfExtractedVersion ==
    RunEnded =>
        \A p \in hist.marked :
            LET stored_info == GetProcessedInfo(mem, p)
                extracted == [q \in AllPaths |-> hist.extracted[p]]
            IN  /\ stored_info.size = GetFileInfo(extracted, p).size
                /\ stored_info.modified_time = GetFileInfo(extracted, p).modified_time
                /\ stored_info.content_hash = GetFileHash(extracted, p, TRUE).hex

\* C30: a run without --force that began with records of different
\* content_hash each leaves no two records with the same content_hash, also
\* when files of the same content are new in the same run.
C30_NoTwoRecordsShareHash ==
    RunEnded /\ ~run.force /\ hist.unique => HashUnique(mem)

(***************************************************************************)
(* Properties of chunk_text and of calls in a row (SpecCalls).             *)
(***************************************************************************)
ChunkTextReturned == chunks.out = "return" /\ "result" \in DOMAIN chunks

\* C21: in what chunk_text returns, whatever the metadata, the i-th dict has
\* chunk_index i counted from 0, every dict has the number of dicts as
\* total_chunks, 0 <= chunk_index < total_chunks, and every entry of the
\* metadata is in every dict.
C21_RecordsNumberedAndMerged ==
    ChunkTextReturned =>
        \A i \in DOMAIN chunks.result :
            LET chunk_data == chunks.result[i]
            IN  /\ chunk_data.chunk_index = i - 1
                /\ chunk_data.total_chunks = Len(chunks.result)
                /\ 0 <= chunk_data.chunk_index
                /\ chunk_data.chunk_index < chunk_data.total_chunks
                /\ \A k \in DOMAIN metadata :
                       k \in DOMAIN chunk_data /\ chunk_data[k] = metadata[k]

\* the call made and the call the history keeps are the same method on the
\* same arguments
SameCallAsEarlier ==
    /\ earlier # None
    /\ chunks # NotCalled
    /\ earlier.text = text
    /\ ("result" \in DOMAIN earlier.returned) = ("result" \in DOMAIN chunks)
    /\ "result" \in DOMAIN chunks => earlier.metadata = metadata

====
